---------------------------- MODULE Spec2Model ----------------------------
(***************************************************************************)
(* Model of the sustainability scoring and recommendation engine:          *)
(*   - api/app/utils/barcode.py            (barcode normaliser)            *)
(*   - app/services/scoring_service.py     (impact sub-scorers)            *)
(*   - api/app/workflows/product_scan_workflow.py, app/workflows/...       *)
(*   - app/services/recommendation_service.py                              *)
(*                                                                         *)
(* Strings that the code inspects character by character (barcodes) are    *)
(* sequences of one-character strings.  None is Python's None.             *)
(***************************************************************************)
EXTENDS Integers, Sequences, FiniteSets, TLC

None == "None"

(***************************************************************************)
(* Bounds                                                                  *)
(***************************************************************************)
\* longest barcode given to normalize_barcode
MaxBarcodeLen == 14

\* most ingredient rows of a product
MaxIngredients == 2
\* most packaging rows of a product
MaxPackagings == 2
\* most products in the repository before a recommendation request
MaxRecProducts == 5
\* most records in one answer of the external catalog search
MaxCatalog == 2
\* most ingredient rows of a product whose coverage is examined
MaxCoverageIngredients == 5

VARIABLES
    \* --- barcode normaliser ---
    bpc,        \* "input" before the call, "done" after it
    barcode,    \* argument of normalize_barcode / get_primary_barcode
    variants,   \* list returned by normalize_barcode
    primary,    \* value returned by get_primary_barcode
    \* --- repository and geocoder ---
    products,   \* the products table with each product's ingredient and
                \* packaging rows: product id -> row
    geocache,   \* lru_cache of GeocodingService.geocode: text -> result
    \* --- scoring ---
    wfSub,      \* sub-scorer results of the last _calculate_scores call
    wfScores,   \* <<>> before the first call, then <<its return value>>
    recScores,  \* likewise for calculate_recommendation_score
    \* --- recommendation engine ---
    rpc,        \* "ready" before get_recommendations, "done" after it
    recCall,    \* the request and what happened during it
    recs,       \* the list get_recommendations returned
    \* --- scan workflow ---
    wpc,        \* the step of ProductScanWorkflow.execute to run next
    wf,         \* the fields of the workflow object, and what it has done
    wfResult,   \* <<>> until execute returns, then <<its return value>>
    \* --- single scorer calls, repeated scoring, concurrent saves ---
    scorerCall, \* <<>>, then <<the last call of one scorer and its result>>
    scoreLog,   \* the compute-scores calls made so far, oldest first
    savers,     \* the requests running save_product, by request
    \* --- concurrent geocoding ---
    geo,        \* the clock, the threads inside geocode, the requests sent
    \* --- ingredient links of one product ---
    links       \* the product_ingredients rows and the record saved last

barcodeVars == <<bpc, barcode, variants, primary>>
worldVars == <<products, geocache>>
scoreVars == <<wfSub, wfScores, recScores>>
recVars == <<rpc, recCall, recs>>
scanVars == <<wpc, wf, wfResult>>
lateVars == <<scorerCall, scoreLog, savers, geo, links>>

vars == <<bpc, barcode, variants, primary, products, geocache,
          wfSub, wfScores, recScores, rpc, recCall, recs, wpc, wf, wfResult,
          scorerCall, scoreLog, savers, geo, links>>

(***************************************************************************)
(* Python string helpers used by barcode.py                                *)
(***************************************************************************)
AsciiDigits == {"0", "1", "2", "3", "4", "5", "6", "7", "8", "9"}

\* str.isdigit(): non-empty and every character a digit
isdigit(s) == Len(s) > 0 /\ \A i \in 1..Len(s) : s[i] \in AsciiDigits

RECURSIVE lstrip0(_)
\* str.lstrip('0')
lstrip0(s) == IF s # <<>> /\ Head(s) = "0" THEN lstrip0(Tail(s)) ELSE s

RECURSIVE Zeros(_)
Zeros(n) == IF n <= 0 THEN <<>> ELSE <<"0">> \o Zeros(n - 1)

\* str.zfill(width) of a digit string: left-pad with zeros, never truncate
zfill(s, width) == Zeros(width - Len(s)) \o s

SeqToSet(s) == {s[i] : i \in 1..Len(s)}

RECURSIVE DedupFrom(_, _)
DedupFrom(vs, seen) ==
    IF vs = <<>> THEN <<>>
    ELSE IF Head(vs) \in seen THEN DedupFrom(Tail(vs), seen)
         ELSE <<Head(vs)>> \o DedupFrom(Tail(vs), seen \cup {Head(vs)})

NoDedup(vs) == vs

\* barcode.py:83-89  "Remove duplicates while preserving order"
Dedup(vs) == DedupFrom(vs, {})

\* variant of LengthVariants that forgets the UPC-A <-> EAN-13 forms
LengthVariantsNoPrefix(b, stripped) ==
    LET length == Len(b) IN
    IF length = 12 \/ length = 13 THEN <<>>
    ELSE IF length = 8 THEN <<zfill(stripped, 12), zfill(stripped, 13)>>
    ELSE IF length < 8 THEN <<zfill(stripped, 8), zfill(stripped, 12), zfill(stripped, 13)>>
    ELSE IF 8 < length /\ length < 12 THEN <<zfill(stripped, 12), zfill(stripped, 13)>>
    ELSE IF length > 13 THEN <<zfill(stripped, 13), zfill(stripped, 12)>>
    ELSE <<>>

\* barcode.py:57-81  variants added according to the input length
LengthVariants(b, stripped) ==
    LET length == Len(b) IN
    IF length = 12 THEN << <<"0">> \o b >>
    ELSE IF length = 13 THEN (IF b[1] = "0" THEN <<Tail(b)>> ELSE <<>>)
    ELSE IF length = 8 THEN <<zfill(stripped, 12), zfill(stripped, 13)>>
    ELSE IF length < 8 THEN <<zfill(stripped, 8), zfill(stripped, 12), zfill(stripped, 13)>>
    ELSE IF 8 < length /\ length < 12 THEN <<zfill(stripped, 12), zfill(stripped, 13)>>
    ELSE IF length > 13 THEN <<zfill(stripped, 13), zfill(stripped, 12)>>
    ELSE <<>>

\* barcode.py:17-91
normalize_barcode(b) ==
    IF b = None \/ b = <<>> \/ ~isdigit(b) THEN <<b>>
    ELSE LET barcode_stripped == lstrip0(b) IN
         IF barcode_stripped = <<>> THEN <<b>>
         ELSE Dedup(<<b>>
                    \o (IF barcode_stripped # b THEN <<barcode_stripped>> ELSE <<>>)
                    \o LengthVariants(b, barcode_stripped))

\* barcode.py:94-113
get_primary_barcode(b) ==
    IF b = None \/ b = <<>> \/ ~isdigit(b) THEN b ELSE zfill(b, 13)

(***************************************************************************)
(* Optional numbers: Python's None is <<>>, a number v is <<v>>.           *)
(***************************************************************************)
NoneV == <<>>
Some(v) == <<v>>
\* isinstance(x, (int, float))
IsNum(x) == Len(x) = 1
Val(x) == x[1]
\* "x if isinstance(x, (int, float)) else 0"
NumOrZero(x) == IF IsNum(x) THEN Val(x) ELSE 0

Max(a, b) == IF a >= b THEN a ELSE b
Min(a, b) == IF a <= b THEN a ELSE b

(***************************************************************************)
(* Geocoding (app/services/geocoding_service.py).  Coordinates are opaque  *)
(* tokens; the haversine formula is tabulated for them (whole km).         *)
(***************************************************************************)
\* geocoding_service.py:19-35
COMMON_LOCATION_KEYS ==
    {<<"u","s","a">>,
     <<"u","n","i","t","e","d"," ","s","t","a","t","e","s">>,
     <<"c","a","n","a","d","a">>,
     <<"m","e","x","i","c","o">>,
     <<"i","t","a","l","y">>,
     <<"f","r","a","n","c","e">>,
     <<"s","p","a","i","n">>,
     <<"g","e","r","m","a","n","y">>,
     <<"u","k">>,
     <<"u","n","i","t","e","d"," ","k","i","n","g","d","o","m">>,
     <<"c","h","i","n","a">>,
     <<"j","a","p","a","n">>,
     <<"i","n","d","i","a">>,
     <<"b","r","a","z","i","l">>,
     <<"a","u","s","t","r","a","l","i","a">>}

COMMON_LOCATIONS(n) ==
    IF n = <<"u","s","a">> THEN "37.0902,-95.7129"
    ELSE IF n = <<"u","n","i","t","e","d"," ","s","t","a","t","e","s">> THEN "37.0902,-95.7129"
    ELSE IF n = <<"c","a","n","a","d","a">> THEN "56.1304,-106.3468"
    ELSE IF n = <<"m","e","x","i","c","o">> THEN "23.6345,-102.5528"
    ELSE IF n = <<"i","t","a","l","y">> THEN "41.8719,12.5674"
    ELSE IF n = <<"f","r","a","n","c","e">> THEN "46.2276,2.2137"
    ELSE IF n = <<"s","p","a","i","n">> THEN "40.4637,-3.7492"
    ELSE IF n = <<"g","e","r","m","a","n","y">> THEN "51.1657,10.4515"
    ELSE IF n = <<"u","k">> THEN "55.3781,-3.4360"
    ELSE IF n = <<"u","n","i","t","e","d"," ","k","i","n","g","d","o","m">> THEN "55.3781,-3.4360"
    ELSE IF n = <<"c","h","i","n","a">> THEN "35.8617,104.1954"
    ELSE IF n = <<"j","a","p","a","n">> THEN "36.2048,138.2529"
    ELSE IF n = <<"i","n","d","i","a">> THEN "20.5937,78.9629"
    ELSE IF n = <<"b","r","a","z","i","l">> THEN "-14.2350,-51.9253"
    ELSE IF n = <<"a","u","s","t","r","a","l","i","a">> THEN "-25.2744,133.7751"
    ELSE None

UpperToLower ==
    ("A" :> "a") @@ ("L" :> "l") @@ ("N" :> "n") @@ ("S" :> "s") @@
    ("T" :> "t") @@ ("U" :> "u") @@ ("I" :> "i")

\* str.lower()
lower(s) == [i \in 1..Len(s) |-> IF s[i] \in DOMAIN UpperToLower THEN UpperToLower[s[i]] ELSE s[i]]

RECURSIVE lstripWs(_)
lstripWs(s) == IF s # <<>> /\ Head(s) = " " THEN lstripWs(Tail(s)) ELSE s

RECURSIVE rstripWs(_)
rstripWs(s) == IF s # <<>> /\ s[Len(s)] = " " THEN rstripWs(SubSeq(s, 1, Len(s) - 1)) ELSE s

\* str.strip()
strip(s) == rstripWs(lstripWs(s))

\* geocoding_service.py:54
NormalizeLocation(location_text) == strip(lower(location_text))

\* destinations: the configured store (config.py:26-27) or the caller's
\* coordinates
Destinations == {"store", "user"}

\* geocoding_service.py:117-147 haversine_distance, tabulated in whole km
DistanceTable ==
    [store |->
     ("37.0902,-95.7129" :> 2809) @@
     ("56.1304,-106.3468" :> 3225) @@
     ("23.6345,-102.5528" :> 4221) @@
     ("41.8719,12.5674" :> 5940) @@
     ("46.2276,2.2137" :> 4984) @@
     ("40.4637,-3.7492" :> 4811) @@
     ("51.1657,10.4515" :> 5328) @@
     ("55.3781,-3.4360" :> 4312) @@
     ("35.8617,104.1954" :> 10978) @@
     ("36.2048,138.2529" :> 10759) @@
     ("20.5937,78.9629" :> 11825) @@
     ("-14.2350,-51.9253" :> 6652) @@
     ("-25.2744,133.7751" :> 17355) @@
     ("ext:near" :> 50) @@
     ("ext:edge" :> 100) @@
     ("ext:inland" :> 1500) @@
     ("ext:overseas" :> 5000) @@
     ("ext:regional" :> 499) @@
     ("ext:continental" :> 2000),
     user |->
     ("37.0902,-95.7129" :> 1560) @@
     ("56.1304,-106.3468" :> 2353) @@
     ("23.6345,-102.5528" :> 3070) @@
     ("41.8719,12.5674" :> 7087) @@
     ("46.2276,2.2137" :> 6131) @@
     ("40.4637,-3.7492" :> 6029) @@
     ("51.1657,10.4515" :> 6380) @@
     ("55.3781,-3.4360" :> 5348) @@
     ("35.8617,104.1954" :> 11166) @@
     ("36.2048,138.2529" :> 10355) @@
     ("20.5937,78.9629" :> 12537) @@
     ("-14.2350,-51.9253" :> 7015) @@
     ("-25.2744,133.7751" :> 16390) @@
     ("ext:near" :> 300) @@
     ("ext:edge" :> 500) @@
     ("ext:inland" :> 99) @@
     ("ext:overseas" :> 8000) @@
     ("ext:regional" :> 1999) @@
     ("ext:continental" :> 4999)]

haversine_distance(origin_coords, dest) == DistanceTable[dest][origin_coords]

\* what the external geocoder (Nominatim) may answer: coordinates, or None
\* for no result, an HTTP error, a timeout or any other exception
\* (geocoding_service.py:97-115)
ExternalCoords == {"ext:near", "ext:edge", "ext:inland", "ext:overseas"}
ExternalAnswers == ExternalCoords \cup {None}

\* geocoding_service.py:63-115: every failure ends in "return None"
_geocode_nominatim(answer) == answer

\* geocoding_service.py:37-61 without the lru_cache wrapper: the value
\* computed on a cache miss; answer is the external service's reply
GeocodeMiss(location_text, answer) ==
    IF location_text = <<>> THEN None
    ELSE IF NormalizeLocation(location_text) \in COMMON_LOCATION_KEYS
         THEN COMMON_LOCATIONS(NormalizeLocation(location_text))
         ELSE _geocode_nominatim(answer)

\* does a cache miss for this text reach the external service
NeedsExternal(location_text) ==
    /\ location_text # <<>>
    /\ NormalizeLocation(location_text) \notin COMMON_LOCATION_KEYS

\* geocoding_service.py:38 lru_cache keyed by the call's argument: the
\* cache maps the raw location text to the value returned the first time
geocode(cache, location_text, answer) ==
    IF location_text \in DOMAIN cache THEN cache[location_text]
    ELSE GeocodeMiss(location_text, answer)

\* a cache that keeps coordinates only, never a failed lookup
CacheSuccessesOnly(cache, location_text, answer) ==
    IF location_text \in DOMAIN cache \/ GeocodeMiss(location_text, answer) = None
    THEN cache
    ELSE cache @@ (location_text :> GeocodeMiss(location_text, answer))

\* geocoding_service.py:38: what the lru_cache holds after the call
CacheAfter(cache, location_text, answer) ==
    IF location_text \in DOMAIN cache THEN cache
    ELSE cache @@ (location_text :> GeocodeMiss(location_text, answer))

(***************************************************************************)
(* Raw materials scorer (app/services/scoring_service.py:23-233).          *)
(* An ingredient row is [pct, co2, health]: pct is the optional            *)
(* percent_estimate (whole percent), co2 the optional emission factor in   *)
(* hundredths of kg CO2 per kg, health the stored health classification.   *)
(* A CO2 figure is an exact fraction <<numerator, denominator>> in kg.     *)
(***************************************************************************)
\* a multiplier table whose default is the multiplier of tier 4
NOVA_MULTIPLIERS_DefaultHighest(nova_group) ==
    IF nova_group = Some(1) THEN 10
    ELSE IF nova_group = Some(2) THEN 11
    ELSE IF nova_group = Some(3) THEN 12
    ELSE 15

\* scoring_service.py:23-29 and the .get(nova_group, 1.2) of line 128,
\* in tenths
NOVA_MULTIPLIERS(nova_group) ==
    IF nova_group = Some(1) THEN 10
    ELSE IF nova_group = Some(2) THEN 11
    ELSE IF nova_group = Some(3) THEN 12
    ELSE IF nova_group = Some(4) THEN 15
    ELSE 12

\* thresholds that count the boundary value into the better band
_co2_to_points_inclusive(n, d) ==
    IF n <= 1 * d THEN 10
    ELSE IF n <= 2 * d THEN 5
    ELSE IF n <= 5 * d THEN 0
    ELSE IF n <= 10 * d THEN -5
    ELSE -15

\* scoring_service.py:163-176, co2_kg = n / d with d > 0
_co2_to_points(n, d) ==
    IF n < 1 * d THEN 10
    ELSE IF n < 2 * d THEN 5
    ELSE IF n < 5 * d THEN 0
    ELSE IF n < 10 * d THEN -5
    ELSE -15

\* a confidence whose first threshold is strict: coverage > 0.8
_determine_confidence_strict(has_percentages, with_data, count) ==
    IF has_percentages /\ 10 * with_data > 8 * count THEN "high"
    ELSE IF 10 * with_data >= 5 * count THEN "medium"
    ELSE "low"

\* scoring_service.py:178-189, coverage = with_data / count
_determine_confidence(has_percentages, with_data, count) ==
    IF has_percentages /\ 10 * with_data >= 8 * count THEN "high"
    ELSE IF 10 * with_data >= 5 * count THEN "medium"
    ELSE "low"

\* an estimate table that gives tier 4 the estimate of tier 3
nova_estimates_tier4_as_tier3(nova_group) ==
    IF nova_group = Some(1) THEN 8
    ELSE IF nova_group = Some(2) THEN 15
    ELSE 30

\* scoring_service.py:196-204, in tenths of kg
nova_estimates(nova_group) ==
    IF nova_group = Some(1) THEN 8
    ELSE IF nova_group = Some(2) THEN 15
    ELSE IF nova_group = Some(3) THEN 30
    ELSE IF nova_group = Some(4) THEN 50
    ELSE 30

\* scoring_service.py:191-224
_fallback_nova_only(nova_group) ==
    [points |-> Some(_co2_to_points(nova_estimates(nova_group), 10)),
     status |-> None,
     total_co2 |-> <<nova_estimates(nova_group), 10>>,
     confidence |-> "low",
     has_percentages |-> FALSE,
     with_data |-> 0,
     fallback_used |-> "nova_only_estimate"]

\* scoring_service.py:226-233
_fallback_no_emission_factors(nova_group) == _fallback_nova_only(nova_group)

\* every row with an emission factor apportioned, with or without a
\* percent of its own
RowUsedWithoutPercent(row, has_percentages) == IsNum(row.co2)

\* scoring_service.py:112-121: is the row apportioned
RowUsed(row, has_percentages) ==
    IsNum(row.co2) /\ (IsNum(row.pct) \/ ~has_percentages)

RECURSIVE SumCo2(_, _, _)
\* scoring_service.py:102-126: total_co2 as a numerator over the
\* denominator Co2Den below
SumCo2(rows, has_percentages, count) ==
    IF rows = <<>> THEN 0
    ELSE (IF RowUsed(Head(rows), has_percentages)
          THEN (IF IsNum(Head(rows).pct)
                THEN Val(Head(rows).pct) * Val(Head(rows).co2) * count
                ELSE 100 * Val(Head(rows).co2))
          ELSE 0)
         + SumCo2(Tail(rows), has_percentages, count)

\* percent / 100 * kg_co2 with kg_co2 in hundredths: 1/10000 kg per unit,
\* and 1/count for the uniform percent 100 / ingredient_count
Co2Den(count) == 10000 * count

CountUsed(rows, has_percentages) ==
    Cardinality({i \in 1..Len(rows) : RowUsed(rows[i], has_percentages)})

\* scoring_service.py:78-161
_calculate_ingredient_co2(ingredients, nova_group) ==
    LET ingredient_count == Len(ingredients)
        has_percentages == \E i \in 1..Len(ingredients) : IsNum(ingredients[i].pct)
        has_emission_factors == \E i \in 1..Len(ingredients) : IsNum(ingredients[i].co2)
        total_co2 == SumCo2(ingredients, has_percentages, ingredient_count)
        ingredients_with_data == CountUsed(ingredients, has_percentages)
        final_n == total_co2 * NOVA_MULTIPLIERS(nova_group)
        final_d == Co2Den(ingredient_count) * 10
    IN  IF ingredient_count = 0 THEN _fallback_nova_only(nova_group)
        ELSE IF ~has_emission_factors THEN _fallback_no_emission_factors(nova_group)
        ELSE [points |-> Some(_co2_to_points(final_n, final_d)),
              status |-> None,
              total_co2 |-> <<final_n, final_d>>,
              confidence |-> _determine_confidence(has_percentages,
                                                   ingredients_with_data,
                                                   ingredient_count),
              has_percentages |-> has_percentages,
              with_data |-> ingredients_with_data,
              fallback_used |->
                  IF has_percentages /\ 10 * ingredients_with_data > 8 * ingredient_count
                  THEN None ELSE "equal_distribution"]

\* scoring_service.py:31-76; db maps product ids to product rows
calculate_raw_materials_score(db, product_id) ==
    IF product_id \notin DOMAIN db
    THEN [points |-> NoneV, status |-> None, total_co2 |-> None,
          confidence |-> None, has_percentages |-> FALSE, with_data |-> 0,
          fallback_used |-> None]
    ELSE _calculate_ingredient_co2(db[product_id].ingredients, db[product_id].nova_group)

(***************************************************************************)
(* Packaging scorer (scoring_service.py:235-357).  A packaging row is      *)
(* [adj, weight]: the material's score_adjustment and the optional         *)
(* weight_percentage (whole percent).                                      *)
(***************************************************************************)
\* floor of n / d for d > 0
FloorDiv(n, d) == n \div d

\* rounding that sends every tie upwards; n / d, d > 0
PyRoundHalfUp(n, d) == FloorDiv(2 * n + d, 2 * d)

\* Python's round(): nearest integer, ties to the even one; n / d, d > 0
PyRound(n, d) ==
    LET f == FloorDiv(n, d)
        r2 == 2 * (n - f * d)
    IN  IF r2 < d THEN f
        ELSE IF r2 > d THEN f + 1
        ELSE IF f % 2 = 0 THEN f ELSE f + 1

\* every row counted, declared or not
PackUsedAlways(row, has_weights) == TRUE

\* scoring_service.py:304-310: is the row counted
PackUsed(row, has_weights) == IsNum(row.weight) \/ ~has_weights

RECURSIVE SumPack(_, _, _)
\* scoring_service.py:290-313: running sum over the counted rows;
\* what = "score" for total_weighted_score, "weight" for total_weight,
\* both in hundredths when weights are declared and in rows otherwise
SumPack(rows, has_weights, what) ==
    IF rows = <<>> THEN 0
    ELSE (IF PackUsed(Head(rows), has_weights)
          THEN (LET w == IF IsNum(Head(rows).weight) THEN Val(Head(rows).weight) ELSE 1
                IN  IF what = "score" THEN Head(rows).adj * w ELSE w)
          ELSE 0)
         + SumPack(Tail(rows), has_weights, what)

\* scoring_service.py:290-313 and 330-331: total_weighted_score and
\* total_weight are binary floating-point sums, and so is their quotient.
\* It differs from the exact quotient by rounding error, which decides the
\* outcome of round() only where the exact quotient lies half-way between
\* two integers.  FloatTieSide is the side on which IEEE-754 doubles put
\* the quotient there: 1 above the tie, -1 below it, 0 exactly on it.  On
\* the rows of this model the only inexact tie is that of -12 at 70% with
\* 3 at 30%: -12 * 0.7 + 3 * 0.3 is -7.499999999999998, not -7.5.
FloatTieSide(packaging_rows, has_weights) ==
    LET counted == SelectSeq(packaging_rows,
                             LAMBDA row : PackUsed(row, has_weights)
                                          /\ row.weight # Some(0))
    IN  IF counted \in {<<[adj |-> -12, weight |-> Some(70)], [adj |-> 3, weight |-> Some(30)]>>,
                        <<[adj |-> 3, weight |-> Some(30)], [adj |-> -12, weight |-> Some(70)]>>}
        THEN 1 ELSE 0

\* scoring_service.py:331: round() of the floating-point quotient whose
\* exact value is n / d, d > 0
RoundQuotient(n, d, side) ==
    IF 2 * (n - FloorDiv(n, d) * d) = d /\ side # 0
    THEN (IF side > 0 THEN FloorDiv(n, d) + 1 ELSE FloorDiv(n, d))
    ELSE PyRound(n, d)

\* scoring_service.py:274-280: the status of an empty result
PackagingStatus(packaging_rows) ==
    IF packaging_rows = <<>> THEN "no_packaging_data" ELSE None

\* scoring_service.py:235-357
calculate_packaging_score(db, product_id) ==
    LET packaging_rows == IF product_id \in DOMAIN db THEN db[product_id].packagings ELSE <<>>
        has_weights == \E i \in 1..Len(packaging_rows) : IsNum(packaging_rows[i].weight)
        total_weighted_score == SumPack(packaging_rows, has_weights, "score")
        total_weight == SumPack(packaging_rows, has_weights, "weight")
        rounded == IF total_weight > 0
                   THEN RoundQuotient(total_weighted_score, total_weight,
                                      FloatTieSide(packaging_rows, has_weights))
                   ELSE 0
        final_score == Max(-15, Min(10, rounded))
        \* total_weight in the code's unit: total_weight / 100 with declared
        \* weights, total_weight / len(rows) otherwise
        unit == IF has_weights THEN 100 ELSE Len(packaging_rows)
    IN  IF packaging_rows = <<>>
        THEN [points |-> Some(0), status |-> PackagingStatus(packaging_rows),
              confidence |-> "none"]
        ELSE [points |-> Some(final_score), status |-> PackagingStatus(packaging_rows),
              confidence |-> IF has_weights /\ 10 * total_weight >= 8 * unit THEN "high"
                             ELSE IF 10 * total_weight >= 5 * unit THEN "medium"
                             ELSE "low"]

(***************************************************************************)
(* Transportation scorer (scoring_service.py:359-515)                      *)
(***************************************************************************)
\* scoring_service.py:465-485
_determine_transport_mode(distance_km) ==
    IF distance_km < 100 THEN <<"truck_local", 200>>
    ELSE IF distance_km < 500 THEN <<"truck_regional", 200>>
    ELSE IF distance_km < 2000 THEN <<"truck_national", 200>>
    ELSE IF distance_km < 5000 THEN <<"rail_truck", 100>>
    ELSE <<"sea_truck", 50>>

\* bands that count the boundary distance into the nearer band
_distance_to_transportation_score_inclusive(distance_km, transport_mode) ==
    IF distance_km <= 100 THEN 0
    ELSE IF distance_km <= 500 THEN -2
    ELSE IF distance_km <= 2000 THEN -5
    ELSE IF distance_km <= 5000 THEN -8
    ELSE -10

\* scoring_service.py:487-515
_distance_to_transportation_score(distance_km, transport_mode) ==
    IF distance_km < 100 THEN 0
    ELSE IF distance_km < 500 THEN -2
    ELSE IF distance_km < 2000 THEN -5
    ELSE IF distance_km < 5000 THEN -8
    ELSE -10

\* "if not manufacturing_location" tested with "is None" only
LocationMissingNoneOnly(manufacturing_location) == manufacturing_location = NoneV

\* scoring_service.py:414 "if not manufacturing_location": None or "";
\* the column is optional: NoneV, or Some(text)
LocationMissing(manufacturing_location) ==
    manufacturing_location = NoneV \/ Val(manufacturing_location) = <<>>

\* scoring_service.py:359-463; cache is the geocoder's lru_cache, answer
\* the external geocoder's reply should it be asked
calculate_transportation_score(db, product_id, dest, cache, answer) ==
    IF product_id \notin DOMAIN db
    THEN [points |-> Some(0), status |-> "product_not_found", confidence |-> None,
          distance_km |-> NoneV, transport_mode |-> None]
    ELSE LET manufacturing_location == db[product_id].manufacturing_places
             origin_coords == geocode(cache, Val(manufacturing_location), answer)
         IN  IF LocationMissing(manufacturing_location)
             THEN [points |-> Some(0), status |-> "no_location_data", confidence |-> "none",
                   distance_km |-> NoneV, transport_mode |-> None]
             ELSE IF origin_coords = None
             THEN [points |-> Some(0), status |-> "geocoding_failed", confidence |-> "none",
                   distance_km |-> NoneV, transport_mode |-> None]
             ELSE LET distance_km == haversine_distance(origin_coords, dest)
                      transport_mode == _determine_transport_mode(distance_km)[1]
                  IN  [points |-> Some(_distance_to_transportation_score(distance_km, transport_mode)),
                       status |-> None,
                       confidence |-> "medium",
                       distance_km |-> Some(distance_km),
                       transport_mode |-> transport_mode]

\* the geocoder's cache after calculate_transportation_score
TransportCacheAfter(db, product_id, cache, answer) ==
    IF product_id \notin DOMAIN db \/ LocationMissing(db[product_id].manufacturing_places)
    THEN cache
    ELSE CacheAfter(cache, Val(db[product_id].manufacturing_places), answer)

(***************************************************************************)
(* Climate efficiency scorer.  Its code is not part of the sources; it is  *)
(* modelled from section 4.5: without calorie data the result is           *)
(* data_available = false, confidence none and a zero contribution;        *)
(* otherwise the points are the product's climate fact.                    *)
(***************************************************************************)
calculate_climate_efficiency_score(db, product_id) ==
    IF product_id \notin DOMAIN db \/ ~IsNum(db[product_id].climate)
    THEN [points |-> Some(0), data_available |-> FALSE, confidence |-> "none"]
    ELSE [points |-> db[product_id].climate, data_available |-> TRUE,
          confidence |-> "medium"]

(***************************************************************************)
(* Ingredient health classifier                                            *)
(* (api/app/services/ingredient_analysis_service.py:47-128)                *)
(***************************************************************************)
\* the stored classification without a default
ClassificationAsStored(row) == row.health

\* ingredient_analysis_service.py:81  "health_classification or 'good'"
Classification(row) ==
    IF row.health = None \/ row.health = "" THEN "good" ELSE row.health

CountClass(rows, class) ==
    Cardinality({i \in 1..Len(rows) : Classification(rows[i]) = class})

\* ingredient_analysis_service.py:47-128: the summary, and of each entry
\* of the ingredient list its classification
analyze_ingredients(db, product_id) ==
    LET ingredient_rows == IF product_id \in DOMAIN db THEN db[product_id].ingredients ELSE <<>>
    IN  IF ingredient_rows = <<>>
        THEN [data_available |-> FALSE, total |-> 0, good |-> 0, caution |-> 0, harmful |-> 0,
              ingredients |-> <<>>]
        ELSE [data_available |-> TRUE,
              total |-> Len(ingredient_rows),
              good |-> CountClass(ingredient_rows, "good"),
              caution |-> CountClass(ingredient_rows, "caution"),
              harmful |-> CountClass(ingredient_rows, "harmful"),
              ingredients |-> [i \in 1..Len(ingredient_rows) |->
                                 Classification(ingredient_rows[i])]]

(***************************************************************************)
(* Score aggregators                                                       *)
(***************************************************************************)
\* grade breakpoints shifted by one: "> 80" in place of ">= 80"
GradeStrict(final_score) ==
    IF final_score > 80 THEN "A"
    ELSE IF final_score > 60 THEN "B"
    ELSE IF final_score > 40 THEN "C"
    ELSE IF final_score > 20 THEN "D"
    ELSE "E"

\* api/app/workflows/product_scan_workflow.py:278-287
WorkflowGrade(final_score) ==
    IF final_score >= 80 THEN "A"
    ELSE IF final_score >= 60 THEN "B"
    ELSE IF final_score >= 40 THEN "C"
    ELSE IF final_score >= 20 THEN "D"
    ELSE "E"

\* app/services/recommendation_service.py:177-187
RecommendationGrade(sustainability_score) ==
    IF sustainability_score >= 80 THEN "A"
    ELSE IF sustainability_score >= 60 THEN "B"
    ELSE IF sustainability_score >= 40 THEN "C"
    ELSE IF sustainability_score >= 20 THEN "D"
    ELSE "E"

\* the aggregate without the clamp to [0, 100]
UnclampedTotal(raw, packaging, transportation, climate) ==
    50 + raw + packaging + transportation + climate

\* product_scan_workflow.py:275-276 and recommendation_service.py:174-175
ClampedTotal(raw, packaging, transportation, climate) ==
    Max(0, Min(100, 50 + (raw + packaging + transportation + climate)))

\* the four sub-scorer results of one call of _calculate_scores
\* (product_scan_workflow.py:250-272)
SubScores(db, product_id, dest, cache, answer) ==
    [raw_materials |-> calculate_raw_materials_score(db, product_id),
     packaging |-> calculate_packaging_score(db, product_id),
     transportation |-> calculate_transportation_score(db, product_id, dest, cache, answer),
     climate_efficiency |-> calculate_climate_efficiency_score(db, product_id)]

\* product_scan_workflow.py:296-341: the metrics reported, each with the
\* "score" it carries
Metrics(sub) ==
    (IF IsNum(sub.raw_materials.points) /\ sub.raw_materials.status # "not_implemented"
     THEN ("raw_materials" :> sub.raw_materials.points) ELSE <<>>)
    @@ (IF IsNum(sub.packaging.points) /\ sub.packaging.status # "no_packaging_data"
        THEN ("packaging" :> sub.packaging.points) ELSE <<>>)
    @@ (IF IsNum(sub.transportation.points)
           /\ sub.transportation.status \notin {"no_location_data", "geocoding_failed"}
        THEN ("transportation" :> sub.transportation.points) ELSE <<>>)
    @@ ("climate_efficiency" :> sub.climate_efficiency.points)

\* the empty dict returned without a product id
EmptyScores == <<>>

\* api/app/workflows/product_scan_workflow.py:241-343 (the same code as
\* app/workflows/product_scan_workflow.py:167-269); product_id is optional
\* and sub holds the sub-scorer results of lines 250-272
_calculate_scores(product_id, sub) ==
    IF ~IsNum(product_id) \/ Val(product_id) = 0 THEN EmptyScores
    ELSE LET final_score == ClampedTotal(NumOrZero(sub.raw_materials.points),
                                         NumOrZero(sub.packaging.points),
                                         NumOrZero(sub.transportation.points),
                                         NumOrZero(sub.climate_efficiency.points))
         IN  [total_score |-> final_score,
              grade |-> WorkflowGrade(final_score),
              metrics |-> Metrics(sub)]

\* a health penalty that forgets the caution count
HealthPenaltyHarmfulOnly(harmful_count, caution_count) == harmful_count * 5

\* recommendation_service.py:195
HealthPenalty(harmful_count, caution_count) == (harmful_count * 5) + (caution_count * 2)

\* recommendation_service.py:138-207
calculate_recommendation_score(db, product_id) ==
    LET raw_materials == calculate_raw_materials_score(db, product_id)
        packaging == calculate_packaging_score(db, product_id)
        \* lines 163-168: the cached column, 0 without a row or a value
        transportation_points ==
            IF product_id \in DOMAIN db
            THEN NumOrZero(db[product_id].transportation_score) ELSE 0
        climate == calculate_climate_efficiency_score(db, product_id)
        sustainability_score == ClampedTotal(NumOrZero(raw_materials.points),
                                             NumOrZero(packaging.points),
                                             transportation_points,
                                             NumOrZero(climate.points))
        ingredients == analyze_ingredients(db, product_id)
        health_penalty == HealthPenalty(ingredients.harmful, ingredients.caution)
    IN  [sustainability_score |-> sustainability_score,
         grade |-> RecommendationGrade(sustainability_score),
         harmful_ingredients |-> ingredients.harmful,
         caution_ingredients |-> ingredients.caution,
         health_penalty |-> health_penalty,
         recommendation_score |-> Max(0, sustainability_score - health_penalty)]

(***************************************************************************)
(* Product storage.  A catalogue record carries the facts save_product     *)
(* turns into rows: code, primary category (the last categories tag, None  *)
(* when it is no "en:" tag), nova group, manufacturing places, ingredient  *)
(* and packaging lists.  products is indexed by the serial product id.     *)
(***************************************************************************)
\* product_storage.py:389, SELECT id FROM products WHERE upc = %s
FindByUpc(db, upc) == {id \in DOMAIN db : db[id].upc = upc}

\* product_storage.py:640-668: a packaging row is inserted without a
\* weight percentage
PackagingRowOf(packaging) == [adj |-> packaging.adj, weight |-> NoneV]

\* product_storage.py:450-489 and steps 6-13 for a code without a row
InsertedRow(off_product) ==
    [upc |-> off_product.code,
     category |-> off_product.category,
     nova_group |-> off_product.nova_group,
     manufacturing_places |-> off_product.manufacturing_places,
     transportation_score |-> NoneV,
     ingredients |-> off_product.ingredients,
     packagings |-> [i \in 1..Len(off_product.packagings) |->
                        PackagingRowOf(off_product.packagings[i])],
     climate |-> off_product.climate]

\* product_storage.py:392-449 and steps 6-13 for a code with a row: the
\* ingredient rows are replaced only by a non-empty list (line 594), the
\* cached transportation score is not touched
UpdatedRow(row, off_product) ==
    [InsertedRow(off_product) EXCEPT
        !.transportation_score = row.transportation_score,
        !.ingredients = IF off_product.ingredients = <<>> THEN row.ingredients
                        ELSE off_product.ingredients]

\* product_storage.py:353-727; the result is the repository afterwards
\* and the product id returned
save_product(db, off_product) ==
    LET existing == FindByUpc(db, off_product.code)
    IN  IF existing # {}
        THEN LET product_id == CHOOSE id \in existing : \A o \in existing : id <= o
             IN  [db |-> [db EXCEPT ![product_id] = UpdatedRow(db[product_id], off_product)],
                  id |-> product_id]
        ELSE [db |-> Append(db, InsertedRow(off_product)), id |-> Len(db) + 1]

\* how a save can fail (db.py:29, every statement is committed on its
\* own): before anything is written, or after the product row is written
\* and before its category, ingredient and packaging rows are
SaveFaultModes == {"before_write", "after_product_row"}

\* the repository after save_product raised in the given mode
FailedSave(db, off_product, mode) ==
    LET existing == FindByUpc(db, off_product.code)
    IN  IF mode = "before_write" THEN db
        ELSE IF existing = {}
        THEN Append(db, [InsertedRow(off_product) EXCEPT
                            !.category = None, !.ingredients = <<>>, !.packagings = <<>>,
                            !.climate = NoneV])
        ELSE LET product_id == CHOOSE id \in existing : \A o \in existing : id <= o
             IN  [db EXCEPT ![product_id] =
                     [@ EXCEPT !.nova_group = off_product.nova_group,
                               !.manufacturing_places = off_product.manufacturing_places]]

(***************************************************************************)
(* Recommendation engine                                                   *)
(***************************************************************************)
\* recommendation_service.py:212, the default of min_count
min_count == 3
\* recommendation_service.py:228, limit of the local lookup
local_limit == 20
\* recommendation_service.py:260, scored_products[:3]
top_count == 3

Take(s, n) == SubSeq(s, 1, Min(Len(s), n))

InSeq(s, x) == \E i \in 1..Len(s) : s[i] = x

\* a query without the condition p.id != product_id
SimilarIdsWithBaseline(db, product_id, category) ==
    {id \in DOMAIN db : db[id].category = category}

\* the rows the query of recommendation_service.py:34-46 selects
SimilarIds(db, product_id, category) ==
    {id \in DOMAIN db : db[id].category = category /\ id # product_id}

\* the query has no ORDER BY: the rows come in any order
RowOrders(ids) ==
    {o \in [1..Cardinality(ids) -> ids] :
        \A i, j \in 1..Cardinality(ids) : o[i] = o[j] => i = j}

\* recommendation_service.py:18-61; order is the order the rows come in
get_similar_products_from_db(db, product_id, category, order, limit) ==
    IF category = None THEN <<>>
    ELSE Take([i \in 1..Len(order) |-> [id |-> order[i], upc |-> db[order[i]].upc]],
              limit)

\* a search that trusts the body of a failed response
SearchIgnoringFailure(response, page_size) ==
    Take(response.products, Min(page_size, 100))

\* open_food_facts.py:256-308; the catalogue answers with at most
\* page_size records, a status other than 200 and every exception give []
search_products_by_category(response, page_size) ==
    IF response.kind = "http" /\ response.status = 200
    THEN Take(response.products, Min(page_size, 100))
    ELSE <<>>

RECURSIVE SaveNewProducts(_, _, _, _, _, _, _)
\* recommendation_service.py:101-133, the loop from record i on; fault
\* names the record whose save raises (at = 0: none) and how
SaveNewProducts(db, off_products, i, exclude_upcs, needed, saved, fault) ==
    IF i > Len(off_products) THEN [db |-> db, saved |-> saved]
    ELSE LET off_product == off_products[i]
             upc == off_product.code
         IN  IF upc = <<>> \/ InSeq(exclude_upcs, upc)
             THEN SaveNewProducts(db, off_products, i + 1, exclude_upcs, needed, saved, fault)
             ELSE IF FindByUpc(db, upc) # {}
             THEN SaveNewProducts(db, off_products, i + 1, exclude_upcs, needed, saved, fault)
             ELSE IF fault.at = i
             THEN SaveNewProducts(FailedSave(db, off_product, fault.mode), off_products,
                                  i + 1, exclude_upcs, needed, saved, fault)
             ELSE LET r == save_product(db, off_product)
                      saved_products == Append(saved, [id |-> r.id, upc |-> upc])
                  IN  IF Len(saved_products) >= needed
                      THEN [db |-> r.db, saved |-> saved_products]
                      ELSE SaveNewProducts(r.db, off_products, i + 1, exclude_upcs,
                                           needed, saved_products, fault)

\* recommendation_service.py:64-136; requests counts the search requests
\* sent to the catalogue (line 87)
fetch_and_save_similar_products(db, category, exclude_upcs, needed, response, fault) ==
    IF category = None THEN [db |-> db, saved |-> <<>>, requests |-> 0]
    ELSE LET off_products == search_products_by_category(response, needed * 2)
         IN  IF off_products = <<>> THEN [db |-> db, saved |-> <<>>, requests |-> 1]
             ELSE LET r == SaveNewProducts(db, off_products, 1, exclude_upcs,
                                           needed, <<>>, fault)
                  IN  [db |-> r.db, saved |-> r.saved, requests |-> 1]

\* a lookup that is topped up even when it found min_count products
NeedsMoreInclusive(local_products) == Len(local_products) <= min_count

\* recommendation_service.py:231
NeedsMore(local_products) == Len(local_products) < min_count

\* a filter that also keeps the candidates equal to the baseline
BetterOrEqual(recommendation_score, current_score) ==
    recommendation_score >= current_score

\* recommendation_service.py:246
Better(recommendation_score, current_score) == recommendation_score > current_score

RECURSIVE ScoreUntilFailure(_, _, _, _)
\* a scoring loop that stops at the first candidate whose scoring raises
ScoreUntilFailure(db, pool, current_score, failing) ==
    IF pool = <<>> \/ Head(pool).id \in failing THEN <<>>
    ELSE LET scores == calculate_recommendation_score(db, Head(pool).id)
             rest == ScoreUntilFailure(db, Tail(pool), current_score, failing)
         IN  IF Better(scores.recommendation_score, current_score)
             THEN <<[product |-> Head(pool), scores |-> scores]>> \o rest
             ELSE rest

RECURSIVE ScoreCandidates(_, _, _, _)
\* recommendation_service.py:240-254; failing holds the candidates whose
\* scoring raises
ScoreCandidates(db, pool, current_score, failing) ==
    IF pool = <<>> THEN <<>>
    ELSE LET scores == calculate_recommendation_score(db, Head(pool).id)
             rest == ScoreCandidates(db, Tail(pool), current_score, failing)
         IN  IF Head(pool).id \in failing THEN rest
             ELSE IF Better(scores.recommendation_score, current_score)
             THEN <<[product |-> Head(pool), scores |-> scores]>> \o rest
             ELSE rest

\* x put behind the entries of a descending list that score at least as
\* much as x
InsertDescending(sorted, x) ==
    LET k == Cardinality({i \in 1..Len(sorted) :
                 sorted[i].scores.recommendation_score >= x.scores.recommendation_score})
    IN  SubSeq(sorted, 1, k) \o <<x>> \o SubSeq(sorted, k + 1, Len(sorted))

RECURSIVE SortByScore(_)
\* recommendation_service.py:256, the stable sort with reverse=True
SortByScore(scored_products) ==
    IF scored_products = <<>> THEN <<>>
    ELSE InsertDescending(SortByScore(SubSeq(scored_products, 1, Len(scored_products) - 1)),
                          scored_products[Len(scored_products)])

\* recommendation_service.py:264-271
PrimaryReason(score_diff) ==
    IF score_diff >= 20 THEN "Significantly better sustainability score"
    ELSE IF score_diff >= 10 THEN "Better sustainability score"
    ELSE "Slightly better sustainability score"

\* recommendation_service.py:260-290, one entry of the response
Recommendation(product, current_score) ==
    [upc |-> product.product.upc,
     sustainability_score |-> product.scores.sustainability_score,
     grade |-> product.scores.grade,
     harmful_ingredients |-> product.scores.harmful_ingredients,
     reason |-> PrimaryReason(product.scores.recommendation_score - current_score),
     no_harmful_ingredients |-> product.scores.harmful_ingredients = 0,
     score_improvement |-> product.scores.recommendation_score - current_score]

\* recommendation_service.py:239-293, steps 3 to 5
RankCandidates(db, pool, current_score, failing) ==
    LET scored_products == SortByScore(ScoreCandidates(db, pool, current_score, failing))
        top == Take(scored_products, top_count)
    IN  [i \in 1..Len(top) |-> Recommendation(top[i], current_score)]

\* recommendation_service.py:210-293: the repository afterwards, the
\* candidate pool and the list returned
get_recommendations(db, product_id, category, current_score, order, response, fault, failing) ==
    LET local_products == get_similar_products_from_db(db, product_id, category,
                                                       order, local_limit)
        fetch == NeedsMore(local_products)
        fetched == IF fetch
                   THEN fetch_and_save_similar_products(
                            db, category,
                            [i \in 1..Len(local_products) |-> local_products[i].upc],
                            min_count - Len(local_products), response, fault)
                   ELSE [db |-> db, saved |-> <<>>, requests |-> 0]
        pool == local_products \o fetched.saved
    IN  [db |-> fetched.db,
         requests |-> fetched.requests,
         local |-> local_products,
         pool |-> pool,
         recommendations |-> RankCandidates(fetched.db, pool, current_score, failing)]

(***************************************************************************)
(* Inputs of the barcode normaliser: z leading zeros, a short body over    *)
(* {0, 7, x}, then k ones; plus the examples of the docstring.             *)
(***************************************************************************)
RECURSIVE Ones(_)
Ones(n) == IF n <= 0 THEN <<>> ELSE <<"1">> \o Ones(n - 1)

BodyChars == {"0", "7", "x"}

Bodies == {<<>>} \cup {<<c>> : c \in BodyChars}
                 \cup {<<c, d>> : c \in BodyChars, d \in BodyChars}

Example12 == <<"7","2","2","7","7","6","0","0","4","6","2","3">>
Example13 == <<"0">> \o Example12
ExampleZeroPrefixed == <<"0","0","0","0","0","6","1","0","5","4","2","2">>
ExampleEan8 == <<"0","6","1","0","5","4","2","2">>

BarcodeInputs ==
    {Zeros(z) \o body \o Ones(k) :
        z \in 0..MaxBarcodeLen, body \in Bodies, k \in 0..MaxBarcodeLen}
    \cup {Example12, Example13, ExampleZeroPrefixed}

\* the state of the components a specification leaves idle
IdleBarcode == bpc = "idle" /\ barcode = <<>> /\ variants = <<>> /\ primary = None
IdleWorld == products = <<>> /\ geocache = <<>>
IdleScore == wfSub = <<>> /\ wfScores = <<>> /\ recScores = <<>>
IdleRec == rpc = "idle" /\ recCall = <<>> /\ recs = <<>>
IdleScan == wpc = "idle" /\ wf = <<>> /\ wfResult = <<>>
IdleLate == scorerCall = <<>> /\ scoreLog = <<>> /\ savers = <<>> /\ geo = <<>> /\ links = <<>>

InitBarcode ==
    /\ bpc = "input"
    /\ barcode \in {b \in BarcodeInputs : Len(b) <= MaxBarcodeLen}
    /\ variants = <<>>
    /\ primary = None
    /\ IdleWorld /\ IdleScore /\ IdleRec /\ IdleScan /\ IdleLate

NormalizeBarcode ==
    /\ bpc = "input"
    /\ variants' = normalize_barcode(barcode)
    /\ primary' = get_primary_barcode(barcode)
    /\ bpc' = "done"
    /\ UNCHANGED <<barcode, worldVars, scoreVars, recVars, scanVars, lateVars>>

NextBarcode == NormalizeBarcode

SpecBarcode == InitBarcode /\ [][NextBarcode]_vars

(***************************************************************************)
(* Scoring: one product, scored by the workflow aggregator and by the      *)
(* recommendation aggregator                                               *)
(***************************************************************************)
RECURSIVE SeqsUpTo(_, _)
\* the sequences over S of length at most n
SeqsUpTo(S, n) ==
    IF n = 0 THEN {<<>>}
    ELSE SeqsUpTo(S, n - 1) \cup
         {Append(q, x) : q \in {r \in SeqsUpTo(S, n - 1) : Len(r) = n - 1}, x \in S}

ScoreIngredientRows ==
    {[pct |-> Some(60), co2 |-> Some(50), health |-> None],
     [pct |-> Some(40), co2 |-> NoneV, health |-> "caution"],
     [pct |-> NoneV, co2 |-> Some(1200), health |-> "harmful"]}

ScorePackagingRows ==
    {[adj |-> 10, weight |-> Some(70)],
     [adj |-> -15, weight |-> NoneV]}

LocUsa == <<" ", "U", "S", "A">>
LocAtlantis == <<"A", "t", "l", "a", "n", "t", "i", "s">>
ScoreLocations == {NoneV, Some(<<>>), Some(LocUsa), Some(LocAtlantis)}

\* the climate scorer's bound is scorer-specific; the large values make
\* the aggregate leave [0, 100] before the clamp
ScoreClimateFacts == {NoneV, Some(-40), Some(40)}

ScoreProducts ==
    [upc : {Example12},
     category : {"snacks"},
     nova_group : {Some(1), NoneV},
     manufacturing_places : ScoreLocations,
     transportation_score : {NoneV, Some(-5)},
     ingredients : SeqsUpTo(ScoreIngredientRows, MaxIngredients),
     packagings : SeqsUpTo(ScorePackagingRows, MaxPackagings),
     climate : ScoreClimateFacts]

\* the replies the external geocoder can give to this call: it is asked
\* only on a cache miss for a text outside the built-in table
AnswersFor(db, product_id, cache) ==
    IF /\ IsNum(product_id) /\ Val(product_id) \in DOMAIN db
       /\ ~LocationMissing(db[Val(product_id)].manufacturing_places)
       /\ Val(db[Val(product_id)].manufacturing_places) \notin DOMAIN cache
       /\ NeedsExternal(Val(db[Val(product_id)].manufacturing_places))
    THEN ExternalAnswers
    ELSE {None}

\* products without ingredient, packaging or location data whose climate
\* fact sweeps the aggregate over the whole of [0, 100] and beyond
GradeProducts ==
    [upc : {Example12},
     category : {"snacks"},
     nova_group : {Some(1), Some(2), Some(3), Some(4), NoneV},
     manufacturing_places : {NoneV},
     transportation_score : {NoneV},
     ingredients : {<<>>},
     packagings : {<<>>},
     climate : {Some(c) : c \in -65..55}]

InitScore ==
    /\ products \in {<<>>} \cup {<<p>> : p \in ScoreProducts \cup GradeProducts}
    /\ geocache = <<>>
    /\ IdleScore
    /\ IdleBarcode /\ IdleRec /\ IdleScan /\ IdleLate

\* ProductScanWorkflow._calculate_scores for product 1, or without a
\* product id (the save of a fetched product failed)
CalculateScores ==
    \E product_id \in {NoneV, Some(1)}, dest \in Destinations :
      \E answer \in AnswersFor(products, product_id, geocache) :
        LET sub == IF IsNum(product_id)
                   THEN <<SubScores(products, Val(product_id), dest, geocache, answer)>>
                   ELSE <<>>
        IN  /\ wfSub' = sub
            /\ wfScores' = <<_calculate_scores(product_id, IF sub = <<>> THEN <<>> ELSE sub[1])>>
            /\ geocache' = IF IsNum(product_id)
                           THEN TransportCacheAfter(products, Val(product_id), geocache, answer)
                           ELSE geocache
            /\ UNCHANGED <<products, recScores, barcodeVars, recVars, scanVars, lateVars>>

\* RecommendationService.calculate_recommendation_score for product 1
CalculateRecommendationScore ==
    /\ recScores' = <<calculate_recommendation_score(products, 1)>>
    /\ UNCHANGED <<products, geocache, wfSub, wfScores, barcodeVars, recVars, scanVars, lateVars>>

NextScore == CalculateScores \/ CalculateRecommendationScore

SpecScore == InitScore /\ [][NextScore]_vars

(***************************************************************************)
(* Recommendations: one request for alternatives to product 1 against a    *)
(* repository of up to MaxRecProducts products                             *)
(***************************************************************************)
DigitChars == <<"0", "1", "2", "3", "4", "5", "6", "7", "8", "9">>

\* the code of the product with id i
RecUpc(i) == <<"9", "0", "0", "0", "0", "0", "0", DigitChars[i + 1]>>

HarmfulIngredient == [pct |-> NoneV, co2 |-> NoneV, health |-> "harmful"]

\* facts whose recommendation score is 50 + climate, less 5 for a harmful
\* ingredient: "base" 50, "c45" 45, "c55" 60 - 5, "c70" 70
RecFacts(kind) ==
    [nova_group |-> NoneV,
     manufacturing_places |-> NoneV,
     ingredients |-> IF kind = "c55" THEN <<HarmfulIngredient>> ELSE <<>>,
     packagings |-> <<>>,
     climate |-> Some(CASE kind = "c45" -> -5 [] kind = "c55" -> 10
                        [] kind = "c70" -> 20 [] OTHER -> 0)]

RecRow(upc, category, kind) ==
    [upc |-> upc, category |-> category,
     nova_group |-> RecFacts(kind).nova_group,
     manufacturing_places |-> RecFacts(kind).manufacturing_places,
     transportation_score |-> NoneV,
     ingredients |-> RecFacts(kind).ingredients,
     packagings |-> RecFacts(kind).packagings,
     climate |-> RecFacts(kind).climate]

\* what the other products of the repository can be: a snack of one of
\* the three kinds, or a product of another category
RecChoices == {"c45", "c55", "c70", "other"}

KindRank(kind) ==
    CASE kind = "c45" -> 1 [] kind = "c55" -> 2 [] kind = "c70" -> 3 [] OTHER -> 4

\* the repositories: product 1 and up to MaxRecProducts - 1 others, their
\* ids in the order of their kinds (the lookup returns its rows in any
\* order, so which id holds which kind makes no difference to a request)
RecDatabases ==
    UNION {{[i \in 1..n |->
               IF i = 1 THEN RecRow(RecUpc(1), "snacks", "base")
               ELSE IF f[i] = "other" THEN RecRow(RecUpc(i), "drinks", "c70")
               ELSE RecRow(RecUpc(i), "snacks", f[i])] :
            f \in {g \in [2..n -> RecChoices] :
                      \A i, j \in 2..n : i < j => KindRank(g[i]) <= KindRank(g[j])}} :
           n \in 1..MaxRecProducts}

CatalogRecord(code, kind) ==
    [code |-> code, category |-> "snacks",
     nova_group |-> RecFacts(kind).nova_group,
     manufacturing_places |-> RecFacts(kind).manufacturing_places,
     ingredients |-> RecFacts(kind).ingredients,
     packagings |-> RecFacts(kind).packagings,
     climate |-> RecFacts(kind).climate]

\* a product the repository cannot hold yet
CatalogNew == CatalogRecord(<<"8", "0", "0", "0", "0", "0", "0", "1">>, "c70")
\* the code of product 2
CatalogKnown == CatalogRecord(RecUpc(2), "c55")
\* a record without a code
CatalogNoCode == CatalogRecord(<<>>, "c70")

CatalogRecords == {CatalogNew, CatalogKnown, CatalogNoCode}

NotAsked == [kind |-> "not_asked", status |-> 0, products |-> <<>>]

\* the outcomes of the search request: an answer with status 200 and a
\* list, an answer with another status, a timeout, a malformed body
CatalogResponses ==
    {[kind |-> "http", status |-> 200, products |-> l] :
        l \in SeqsUpTo(CatalogRecords, MaxCatalog)}
    \cup {[kind |-> "http", status |-> 500, products |-> <<CatalogNew>>],
          [kind |-> "timeout", status |-> 0, products |-> <<CatalogNew>>],
          [kind |-> "exception", status |-> 200, products |-> <<CatalogNew>>]}

\* the catalogue is asked only when the lookup finds too few products
ResponsesFor(db, product_id, category, order) ==
    IF category # None
       /\ NeedsMore(get_similar_products_from_db(db, product_id, category, order,
                                                 local_limit))
    THEN CatalogResponses
    ELSE {NotAsked}

NoFault == [at |-> 0, mode |-> "before_write"]

FaultsFor(response) ==
    {NoFault} \cup
    {[at |-> i, mode |-> m] :
        i \in 1..Len(search_products_by_category(response, 2 * min_count)),
        m \in SaveFaultModes}

LocalOrders(db, product_id, category) ==
    IF category = None THEN {<<>>} ELSE RowOrders(SimilarIds(db, product_id, category))

RecBaselines == {0, 50, 55}

InitRec ==
    /\ products \in RecDatabases
    /\ geocache = <<>>
    /\ rpc = "ready" /\ recCall = <<>> /\ recs = <<>>
    /\ IdleBarcode /\ IdleScore /\ IdleScan /\ IdleLate

\* RecommendationService.get_recommendations for product 1
GetRecommendations ==
    /\ rpc = "ready"
    /\ \E category \in {"snacks", None}, current_score \in RecBaselines :
       \E order \in LocalOrders(products, 1, category) :
       \E response \in ResponsesFor(products, 1, category, order) :
       \E fault \in FaultsFor(response) :
         LET dry == get_recommendations(products, 1, category, current_score,
                                        order, response, fault, {})
         IN  \E failing \in {{}} \cup {{dry.pool[i].id} : i \in 1..Len(dry.pool)} :
               LET r == get_recommendations(products, 1, category, current_score,
                                            order, response, fault, failing)
               IN  /\ products' = r.db
                   /\ recCall' = [category |-> category,
                                  current_score |-> current_score,
                                  response |-> response,
                                  requests |-> r.requests,
                                  fault |-> fault,
                                  failing |-> failing,
                                  local |-> r.local,
                                  pool |-> r.pool]
                   /\ recs' = r.recommendations
                   /\ rpc' = "done"
                   /\ UNCHANGED <<geocache, barcodeVars, scoreVars, scanVars, lateVars>>

NextRec == GetRecommendations

SpecRec == InitRec /\ [][NextRec]_vars

(***************************************************************************)
(* Scoring: claims                                                         *)
(***************************************************************************)
Clamp0To100(x) == IF x < 0 THEN 0 ELSE IF x > 100 THEN 100 ELSE x

\* the score a metric carries in the reported breakdown, 0 when it is left out
ReportedScore(scores, metric) ==
    IF metric \in DOMAIN scores.metrics THEN NumOrZero(scores.metrics[metric]) ELSE 0

NotApplicable == {"no_packaging_data", "no_location_data", "geocoding_failed"}

\* C1: the total score of _calculate_scores is 50 plus the four sub-scorers'
\* points (a missing points value counting 0) clamped to [0, 100]; a metric
\* whose status is "not applicable" is left out of the breakdown, and the
\* total is the same whether computed from all four sub-scores or from the
\* reported metrics only.
C1_TotalIsClampedSum ==
    wfSub # <<>> =>
        LET sub == wfSub[1]
            scores == wfScores[1]
            sum == 50 + NumOrZero(sub.raw_materials.points)
                      + NumOrZero(sub.packaging.points)
                      + NumOrZero(sub.transportation.points)
                      + NumOrZero(sub.climate_efficiency.points)
        IN  /\ scores.total_score = Clamp0To100(sum)
            /\ scores.total_score \in 0..100
            /\ sub.packaging.status \in NotApplicable
                   => "packaging" \notin DOMAIN scores.metrics
            /\ sub.transportation.status \in NotApplicable
                   => "transportation" \notin DOMAIN scores.metrics
            /\ scores.total_score =
                   Clamp0To100(50 + ReportedScore(scores, "raw_materials")
                                  + ReportedScore(scores, "packaging")
                                  + ReportedScore(scores, "transportation")
                                  + ReportedScore(scores, "climate_efficiency"))

\* packaging and transportation are both left out of the breakdown and the
\* sum of the points is below 0, so the clamp decides the total
C1_Witness ==
    /\ wfSub # <<>>
    /\ wfSub[1].packaging.status = "no_packaging_data"
    /\ wfSub[1].transportation.status = "geocoding_failed"
    /\ DOMAIN wfScores[1].metrics = {"raw_materials", "climate_efficiency"}
    /\ wfSub[1].raw_materials.points = Some(-15)
    /\ wfSub[1].climate_efficiency.points = Some(-40)
    /\ wfScores[1].total_score = 0

GradeMatches(score, grade) ==
    /\ grade = "A" <=> score >= 80
    /\ grade = "B" <=> (60 <= score /\ score <= 79)
    /\ grade = "C" <=> (40 <= score /\ score <= 59)
    /\ grade = "D" <=> (20 <= score /\ score <= 39)
    /\ grade = "E" <=> score <= 19

\* C2: the grade is A iff score >= 80, B iff 60..79, C iff 40..59, D iff
\* 20..39, E iff score <= 19, in the workflow aggregator and in the
\* recommendation aggregator, which agree on every score.
C2_GradeBreakpoints ==
    /\ (wfScores # <<>> /\ wfScores[1] # EmptyScores)
           => GradeMatches(wfScores[1].total_score, wfScores[1].grade)
    /\ recScores # <<>>
           => GradeMatches(recScores[1].sustainability_score, recScores[1].grade)
    /\ (wfScores # <<>> /\ wfScores[1] # EmptyScores /\ recScores # <<>>
        /\ wfScores[1].total_score = recScores[1].sustainability_score)
           => wfScores[1].grade = recScores[1].grade

\* both aggregators have graded the boundary score 79 as B
C2_Witness ==
    /\ wfScores # <<>> /\ wfScores[1] # EmptyScores /\ recScores # <<>>
    /\ wfScores[1].total_score = 79 /\ wfScores[1].grade = "B"
    /\ recScores[1].sustainability_score = 79 /\ recScores[1].grade = "B"

\* the number of the product's ingredients stored with this classification
StoredCount(class) ==
    IF 1 \in DOMAIN products
    THEN Cardinality({i \in 1..Len(products[1].ingredients) :
                         products[1].ingredients[i].health = class})
    ELSE 0

\* C4: health_penalty = 5 * harmful_count + 2 * caution_count and
\* recommendation_score = max(0, sustainability_score - health_penalty),
\* hence 0 <= recommendation_score <= sustainability_score <= 100.
C4_HealthPenalty ==
    recScores # <<>> =>
        LET r == recScores[1]
            penalty == 5 * StoredCount("harmful") + 2 * StoredCount("caution")
        IN  /\ r.health_penalty = penalty
            /\ r.recommendation_score =
                   (IF r.sustainability_score - penalty < 0 THEN 0
                    ELSE r.sustainability_score - penalty)
            /\ 0 <= r.recommendation_score
            /\ r.recommendation_score <= r.sustainability_score
            /\ r.sustainability_score <= 100

\* one harmful and one caution ingredient whose penalty of 7 exceeds the
\* sustainability score
C4_Witness ==
    /\ recScores # <<>>
    /\ recScores[1].harmful_ingredients = 1 /\ recScores[1].caution_ingredients = 1
    /\ recScores[1].health_penalty = 7
    /\ recScores[1].sustainability_score \in 1..6
    /\ recScores[1].recommendation_score = 0

\* C5: the packaging scorer reports points 0 and status no_packaging_data
\* exactly when the product has no packaging components; the transportation
\* scorer reports points 0 and no_location_data exactly when the location
\* is absent or empty, and points 0 and geocoding_failed exactly when a
\* present location did not resolve to coordinates; every call returns a
\* result.
C5_MissingDataStatuses ==
    wfSub # <<>> =>
        LET sub == wfSub[1]
            found == 1 \in DOMAIN products
            rows == IF found THEN products[1].packagings ELSE <<>>
            place == IF found THEN products[1].manufacturing_places ELSE NoneV
            absent == place = NoneV \/ place = Some(<<>>)
        IN  /\ sub.packaging.status = "no_packaging_data" <=> rows = <<>>
            /\ sub.packaging.status = "no_packaging_data" => sub.packaging.points = Some(0)
            /\ sub.packaging.status \in {None, "no_packaging_data"}
            /\ found =>
                 /\ sub.transportation.status = "no_location_data" <=> absent
                 /\ sub.transportation.status = "geocoding_failed"
                        <=> (~absent /\ geocache[Val(place)] = None)
                 /\ sub.transportation.status \in {None, "no_location_data", "geocoding_failed"}
            /\ sub.transportation.status \in NotApplicable
                   => sub.transportation.points = Some(0)
            /\ IsNum(sub.packaging.points) /\ IsNum(sub.transportation.points)

\* an empty (not absent) location text and no packaging rows
C5_Witness ==
    /\ wfSub # <<>>
    /\ 1 \in DOMAIN products
    /\ products[1].manufacturing_places = Some(<<>>)
    /\ products[1].packagings = <<>>
    /\ wfSub[1].transportation.status = "no_location_data"
    /\ wfSub[1].packaging.status = "no_packaging_data"

(***************************************************************************)
(* Barcode normaliser: claims                                              *)
(***************************************************************************)
Contains(vs, v) == \E i \in 1..Len(vs) : vs[i] = v

NoDuplicates(vs) == \A i, j \in 1..Len(vs) : i # j => vs[i] # vs[j]

AllZeros(b) == \A i \in 1..Len(b) : b[i] = "0"

\* C8: normalize_barcode returns a non-empty list without duplicates whose
\* first element is the input unchanged; an input that is empty or contains
\* a non-digit character yields exactly the one-element list [input].
C8_NormalizeShape ==
    bpc = "done" =>
        /\ Len(variants) >= 1
        /\ NoDuplicates(variants)
        /\ variants[1] = barcode
        /\ (barcode = <<>> \/ \E i \in 1..Len(barcode) : barcode[i] \notin AsciiDigits)
               => variants = <<barcode>>

\* a 13-digit input with one leading zero: the stripped form and the
\* "leading zero removed" form coincide and are reported once
C8_Witness ==
    /\ bpc = "done"
    /\ Len(barcode) = 13 /\ barcode[1] = "0" /\ barcode[2] # "0"
    /\ variants = <<barcode, Tail(barcode)>>

\* C9 as stated: every 12-digit input b yields '0' + b among the candidates,
\* and every 13-digit input starting with '0' yields b without that zero.
C9_Original ==
    (bpc = "done" /\ isdigit(barcode)) =>
        /\ Len(barcode) = 12 => Contains(variants, <<"0">> \o barcode)
        /\ (Len(barcode) = 13 /\ barcode[1] = "0") => Contains(variants, Tail(barcode))

\* C9 amended: the same for every 12- or 13-digit input that is not all
\* zeros; an all-zero input is returned as the single candidate [input].
C9_PrefixForms ==
    (bpc = "done" /\ isdigit(barcode)) =>
        /\ (Len(barcode) = 12 /\ ~AllZeros(barcode))
               => Contains(variants, <<"0">> \o barcode)
        /\ (Len(barcode) = 13 /\ barcode[1] = "0" /\ ~AllZeros(barcode))
               => Contains(variants, Tail(barcode))
        /\ AllZeros(barcode) => variants = <<barcode>>

C9_Witness ==
    /\ bpc = "done"
    /\ barcode = Example12
    /\ variants = <<Example12, Example13>>

\* C10 as stated: every digit input shorter than 12 digits yields its
\* significant digits zero-padded to 8, 12 and 13 digits, and the docstring
\* example "000006105422" yields the 8-digit form "06105422".
C10_Original ==
    (bpc = "done" /\ isdigit(barcode)) =>
        /\ Len(barcode) < 12 =>
              /\ Contains(variants, zfill(lstrip0(barcode), 8))
              /\ Contains(variants, zfill(lstrip0(barcode), 12))
              /\ Contains(variants, zfill(lstrip0(barcode), 13))
        /\ barcode = ExampleZeroPrefixed => Contains(variants, ExampleEan8)

(***************************************************************************)
(* Recommendations: claims                                                 *)
(***************************************************************************)
\* the recommendation score of a product as the repository stands
RecScoreOf(id) == calculate_recommendation_score(products, id).recommendation_score

\* the product a returned entry is about
ReturnedId(i) == CHOOSE id \in FindByUpc(products, recs[i].upc) : TRUE

\* the candidates of the request whose scoring did not raise
ScoredIds == {recCall.pool[i].id : i \in 1..Len(recCall.pool)} \ recCall.failing

\* those of them that beat the baseline passed in
PassingIds == {id \in ScoredIds : RecScoreOf(id) > recCall.current_score}

ReturnedIds == {ReturnedId(i) : i \in 1..Len(recs)}

\* C3: get_recommendations returns only candidates whose recommendation
\* score is strictly greater than the baseline passed in, each once, in
\* descending order of that score, at most 3 of them and as many as pass
\* up to 3, and no candidate that passed and was left out scores higher
\* than a returned one.
C3_RankingContract ==
    rpc = "done" =>
        /\ Len(recs) <= 3
        /\ Len(recs) = Min(3, Cardinality(PassingIds))
        /\ \A i \in 1..Len(recs) :
              /\ FindByUpc(products, recs[i].upc) # {}
              /\ ReturnedId(i) \in PassingIds
              /\ recCall.current_score + recs[i].score_improvement
                    = RecScoreOf(ReturnedId(i))
              /\ recs[i].score_improvement > 0
        /\ \A i, j \in 1..Len(recs) :
              /\ i < j => recs[i].score_improvement >= recs[j].score_improvement
              /\ recs[i].upc = recs[j].upc => i = j
        /\ \A id \in PassingIds \ ReturnedIds :
              \A i \in 1..Len(recs) : RecScoreOf(id) <= RecScoreOf(ReturnedId(i))

\* the example of the specification: baseline 50, candidates scoring 45,
\* 55 and 70, and the two above 50 returned as [70, 55]
C3_Witness ==
    /\ rpc = "done"
    /\ recCall.current_score = 50
    /\ recCall.failing = {}
    /\ Len(recCall.pool) = 3
    /\ {RecScoreOf(recCall.pool[i].id) : i \in 1..3} = {45, 55, 70}
    /\ Len(recs) = 2
    /\ recs[1].score_improvement = 20
    /\ recs[2].score_improvement = 5

\* the pool without the candidates in ids
WithoutCandidates(pool, ids) == SelectSeq(pool, LAMBDA c : c.id \notin ids)

\* the search request of the call did not end in an answer with status 200
SearchFailed ==
    /\ recCall.response.kind # "not_asked"
    /\ ~(recCall.response.kind = "http" /\ recCall.response.status = 200)

\* C6: when the scoring of a candidate raises, the list returned is the
\* list the request returns for the pool without that candidate, and the
\* candidate is not in it; when the catalogue search fails, the pool is the
\* local candidates alone and the request still returns their ranking.
C6_FailuresIsolated ==
    rpc = "done" =>
        /\ recs = RankCandidates(products,
                                 WithoutCandidates(recCall.pool, recCall.failing),
                                 recCall.current_score, {})
        /\ \A i \in 1..Len(recs) : ReturnedId(i) \notin recCall.failing
        /\ SearchFailed =>
              /\ recCall.pool = recCall.local
              /\ recs = RankCandidates(products, recCall.local,
                                       recCall.current_score, recCall.failing)

\* a request whose search timed out and in which the scoring of the best
\* local candidate raised, before a candidate that is then returned
C6_Witness ==
    /\ rpc = "done"
    /\ recCall.response.kind = "timeout"
    /\ recCall.response.products # <<>>
    /\ Len(recCall.pool) = 2
    /\ recCall.failing = {recCall.pool[1].id}
    /\ RecScoreOf(recCall.pool[1].id) = 70
    /\ recCall.current_score = 50
    /\ Len(recs) = 1
    /\ recs[1].upc = recCall.pool[2].upc

(***************************************************************************)
(* Scan workflow: ProductScanWorkflow.execute, in the version of           *)
(* api/app/workflows ("api") and in the version of app/workflows           *)
(* ("legacy"), one step of it per action                                   *)
(***************************************************************************)
\* most products in the repository before a scan
MaxScanProducts == 2

\* api/app/workflows/product_scan_workflow.py:126-173 and
\* app/workflows/product_scan_workflow.py:104-141: the rows the lookup
\* matches, any of which fetchone can return
_check_database(kind, db, scanned) ==
    IF kind = "api"
    THEN {id \in DOMAIN db : InSeq(normalize_barcode(scanned), db[id].upc)}
    ELSE {id \in DOMAIN db : db[id].upc = scanned \/ db[id].upc = zfill(scanned, 13)}

\* the dict _check_database builds from the row
ProductData(db, id) ==
    [id |-> Some(id), upc |-> db[id].upc, primary_category |-> db[id].category,
     manufacturing_places |-> db[id].manufacturing_places,
     nova_group |-> db[id].nova_group]

\* api/app/workflows/product_scan_workflow.py:200-225
_build_product_data_from_off(product_id, off_data) ==
    [id |-> product_id, upc |-> off_data.code, primary_category |-> off_data.category,
     manufacturing_places |-> off_data.manufacturing_places,
     nova_group |-> off_data.nova_group]

RECURSIVE FirstHeld(_, _)
\* the first of the variants the catalogue holds a product for
FirstHeld(barcode_variants, catalog) ==
    IF barcode_variants = <<>> THEN <<>>
    ELSE IF Head(barcode_variants) \in catalog THEN <<Head(barcode_variants)>>
    ELSE FirstHeld(Tail(barcode_variants), catalog)

\* api/app/services/open_food_facts.py:68-131 (every variant is tried) and
\* app/services/open_food_facts.py:61-96 (the scanned code only); catalog
\* is the set of codes the catalogue holds, failed a request that raised
fetch_product(kind, catalog, scanned, failed) ==
    LET found == IF kind = "api" THEN FirstHeld(normalize_barcode(scanned), catalog)
                 ELSE IF scanned \in catalog THEN <<scanned>> ELSE <<>>
    IN  IF failed \/ found = <<>> THEN <<>>
        ELSE <<CatalogRecord(found[1], "c55")>>

\* the query of _find_similar_products (api 356-368, legacy 282-294)
FindSimilarIds(db, product_id, product_data) ==
    IF ~IsNum(product_id) \/ product_data = <<>> THEN {}
    ELSE IF product_data[1].primary_category = None THEN {}
    ELSE SimilarIds(db, Val(product_id), product_data[1].primary_category)

\* _find_similar_products: the rows in the order they come, 5 at most
_find_similar_products(db, order) ==
    Take([i \in 1..Len(order) |-> [id |-> order[i], upc |-> db[order[i]].upc]], 5)

\* app/workflows/product_scan_workflow.py:313-331; the api version does
\* not recommend unless asked to (line 90)
_make_recommendations(kind, similar_products) ==
    IF kind = "legacy"
    THEN [i \in 1..Len(Take(similar_products, 3)) |->
             [product |-> similar_products[i],
              reason |-> "Similar product in same category"]]
    ELSE <<>>

ErrorResult == [status |-> "error"]
NotFoundResult == [status |-> "not_found"]

ScanStored == {Example12, Example13, ExampleEan8}

\* the codes scanned: the stored ones and an EAN-8 without its leading zero
ScanBarcodes == ScanStored \cup {Tail(ExampleEan8)}

\* repositories of products with different codes
ScanDatabases ==
    {[i \in 1..Len(q) |-> RecRow(q[i], "snacks", "c55")] :
        q \in {r \in SeqsUpTo(ScanStored, MaxScanProducts) :
                  \A i, j \in 1..Len(r) : r[i] = r[j] => i = j}}

\* what the catalogue holds when asked, or a request that fails
FetchOutcomes ==
    {[catalog |-> c, failed |-> FALSE] : c \in SUBSET ScanStored}
    \cup {[catalog |-> ScanStored, failed |-> TRUE]}

NewWorkflow(kind, scanned, analyze) ==
    [kind |-> kind, barcode |-> scanned, analyze_ingredients |-> analyze,
     product_id |-> NoneV, product_data |-> <<>>, source |-> None, off_data |-> <<>>,
     \* what the run has done so far
     checked |-> FALSE, local_match |-> FALSE, first_hit |-> FALSE, queried |-> FALSE]

InitScan ==
    /\ products \in ScanDatabases
    /\ geocache = <<>>
    /\ wpc = "check"
    /\ wf \in {NewWorkflow("api", b, a) : b \in ScanBarcodes, a \in BOOLEAN}
              \cup {NewWorkflow("legacy", b, FALSE) : b \in ScanBarcodes}
    /\ wfResult = <<>>
    /\ IdleBarcode /\ IdleScore /\ IdleRec /\ IdleLate

\* execute, step 1: the lookup returns a row, returns none, or raises
CheckDatabase ==
    /\ wpc = "check"
    /\ LET hits == _check_database(wf.kind, products, wf.barcode)
           seen == [wf EXCEPT !.checked = TRUE,
                              !.local_match = \E id \in DOMAIN products :
                                  InSeq(normalize_barcode(wf.barcode), products[id].upc)]
       IN  \/ /\ wpc' = "done"
              /\ wf' = seen
              /\ wfResult' = <<ErrorResult>>
           \/ /\ hits = {}
              /\ wpc' = "fetch"
              /\ wf' = seen
              /\ wfResult' = wfResult
           \/ \E id \in hits :
                /\ wpc' = "score"
                /\ wf' = [seen EXCEPT !.first_hit = TRUE,
                                      !.product_id = Some(id),
                                      !.product_data = <<ProductData(products, id)>>,
                                      !.source = "database"]
                /\ wfResult' = wfResult
    /\ UNCHANGED <<worldVars, barcodeVars, scoreVars, recVars, lateVars>>

\* execute, step 2: the catalogue is asked; without a product the run ends
FetchFromApi ==
    /\ wpc = "fetch"
    /\ \E outcome \in FetchOutcomes :
         LET off_data == fetch_product(wf.kind, outcome.catalog, wf.barcode, outcome.failed)
         IN  /\ wf' = [wf EXCEPT !.queried = TRUE, !.off_data = off_data]
             /\ IF off_data = <<>>
                THEN wpc' = "done" /\ wfResult' = <<NotFoundResult>>
                ELSE wpc' = "save" /\ wfResult' = wfResult
    /\ UNCHANGED <<worldVars, barcodeVars, scoreVars, recVars, lateVars>>

\* execute, step 3: _save_to_database, which returns None when the save
\* raises
SaveToDatabase ==
    /\ wpc = "save"
    /\ \/ LET r == save_product(products, wf.off_data[1])
          IN  /\ products' = r.db
              /\ wf' = [wf EXCEPT !.product_id = Some(r.id)]
       \/ \E mode \in SaveFaultModes :
            /\ products' = FailedSave(products, wf.off_data[1], mode)
            /\ wf' = [wf EXCEPT !.product_id = NoneV]
    /\ wpc' = "recheck"
    /\ UNCHANGED <<geocache, wfResult, barcodeVars, scoreVars, recVars, lateVars>>

\* execute, the lookup after the save; only the api version falls back on
\* the fetched record
RecheckDatabase ==
    /\ wpc = "recheck"
    /\ LET hits == _check_database(wf.kind, products, wf.barcode)
       IN  \/ /\ wpc' = "done"
              /\ wf' = wf
              /\ wfResult' = <<ErrorResult>>
           \/ /\ hits = {}
              /\ wpc' = "score"
              /\ wf' = [wf EXCEPT !.product_data =
                                      IF wf.kind = "api"
                                      THEN <<_build_product_data_from_off(wf.product_id,
                                                                          wf.off_data[1])>>
                                      ELSE <<>>,
                                  !.source = "open_food_facts"]
              /\ wfResult' = wfResult
           \/ \E id \in hits :
                /\ wpc' = "score"
                /\ wf' = [wf EXCEPT !.product_id = Some(id),
                                    !.product_data = <<ProductData(products, id)>>,
                                    !.source = "open_food_facts"]
                /\ wfResult' = wfResult
    /\ UNCHANGED <<worldVars, barcodeVars, scoreVars, recVars, lateVars>>

\* execute, steps 4 to 7 and the return; a scorer that raises ends the run
\* with status error
FinishScan ==
    /\ wpc = "score"
    /\ \/ /\ wfResult' = <<ErrorResult>>
          /\ geocache' = geocache
       \/ \E dest \in Destinations :
          \E answer \in AnswersFor(products, wf.product_id, geocache) :
          \E order \in RowOrders(FindSimilarIds(products, wf.product_id, wf.product_data)) :
            LET sub == IF IsNum(wf.product_id)
                       THEN <<SubScores(products, Val(wf.product_id), dest, geocache, answer)>>
                       ELSE <<>>
                similar_products == _find_similar_products(products, order)
            IN  /\ wfResult' =
                      <<[status |-> "success",
                         source |-> wf.source,
                         product |-> wf.product_data,
                         sustainability_scores |->
                             _calculate_scores(wf.product_id,
                                               IF sub = <<>> THEN <<>> ELSE sub[1]),
                         similar_products |-> similar_products,
                         recommendations |-> _make_recommendations(wf.kind, similar_products),
                         ingredients_analysis |->
                             IF ~wf.analyze_ingredients THEN <<>>
                             ELSE IF IsNum(wf.product_id)
                             THEN <<analyze_ingredients(products, Val(wf.product_id))>>
                             ELSE <<analyze_ingredients(products, 0)>>]>>
                /\ geocache' = IF IsNum(wf.product_id)
                               THEN TransportCacheAfter(products, Val(wf.product_id),
                                                        geocache, answer)
                               ELSE geocache
    /\ wpc' = "done"
    /\ UNCHANGED <<products, wf, barcodeVars, scoreVars, recVars, lateVars>>

NextScan ==
    \/ CheckDatabase
    \/ FetchFromApi
    \/ SaveToDatabase
    \/ RecheckDatabase
    \/ FinishScan

SpecScan == InitScan /\ [][NextScan]_vars

(***************************************************************************)
(* Scan workflow: claims                                                   *)
(***************************************************************************)
Returned == wpc = "done" /\ wfResult # <<>>

ResultSource ==
    IF Returned /\ "source" \in DOMAIN wfResult[1] THEN wfResult[1].source ELSE None

\* C7 (as claimed): the local lookup comes before any request to the
\* catalogue; when a product of the repository carries one of the
\* normalized forms of the scanned code, the catalogue is never asked and
\* a successful result has source "database"; status not_found is
\* returned only after a lookup without a row and a fetch without a
\* product; source "open_food_facts" is reported only after a lookup
\* without a row and a fetch with a product.
C7_Original ==
    /\ wf.queried => wf.checked
    /\ (wf.checked /\ wf.local_match) =>
          /\ ~wf.queried
          /\ (Returned /\ wfResult[1].status = "success") => ResultSource = "database"
    /\ (Returned /\ wfResult[1].status = "not_found") =>
          wf.checked /\ ~wf.first_hit /\ wf.queried /\ wf.off_data = <<>>
    /\ ResultSource = "open_food_facts" =>
          wf.checked /\ ~wf.first_hit /\ wf.queried /\ wf.off_data # <<>>
    /\ ResultSource = "database" => wf.first_hit /\ ~wf.queried


(***************************************************************************)
(* The sub-scorers and the ingredient classifier, each called on its own   *)
(* for one product of the repository                                       *)
(***************************************************************************)
\* ingredient rows: with and without percent_estimate, with and without an
\* emission factor; 0.50 * 2.00 is the threshold 1.0 itself, 25.00 lies
\* beyond the last threshold, 0.13 * 6.41 * 1.2 is 0.99996; 60% at 0.50
\* with 40% at 1.50 is the documented example of 0.9 kg
ScorerIngredientRows ==
    {[pct |-> Some(50), co2 |-> Some(200), health |-> None],
     [pct |-> Some(50), co2 |-> NoneV, health |-> "caution"],
     [pct |-> NoneV, co2 |-> Some(80), health |-> "harmful"],
     [pct |-> NoneV, co2 |-> Some(1000), health |-> ""],
     [pct |-> Some(100), co2 |-> Some(2500), health |-> "good"],
     [pct |-> NoneV, co2 |-> NoneV, health |-> "moderate"],
     [pct |-> Some(13), co2 |-> Some(641), health |-> None],
     [pct |-> Some(60), co2 |-> Some(50), health |-> None],
     [pct |-> Some(40), co2 |-> Some(150), health |-> None]}

\* packaging rows: declared, undeclared and zero weights, adjustments of
\* the materials table (scoring_service.py:240-248) and one beyond it
ScorerPackagingRows ==
    {[adj |-> 10, weight |-> Some(70)],
     [adj |-> -15, weight |-> Some(30)],
     [adj |-> -15, weight |-> NoneV],
     [adj |-> 10, weight |-> NoneV],
     [adj |-> 3, weight |-> Some(0)],
     [adj |-> -12, weight |-> Some(70)],
     [adj |-> 3, weight |-> Some(30)],
     [adj |-> -20, weight |-> Some(50)]}

\* the processing tiers: 1..4, one outside the table, and none
ScorerNovaGroups == {Some(1), Some(2), Some(3), Some(4), Some(5), NoneV}

\* a product that carries nothing but its barcode
BareProduct ==
    [upc |-> Example12, category |-> "snacks", nova_group |-> NoneV,
     manufacturing_places |-> NoneV, transportation_score |-> NoneV,
     ingredients |-> <<>>, packagings |-> <<>>, climate |-> NoneV]

ScorerProducts ==
    {[BareProduct EXCEPT !.nova_group = n, !.ingredients = rows] :
        n \in ScorerNovaGroups, rows \in SeqsUpTo(ScorerIngredientRows, MaxIngredients)}
    \cup {[BareProduct EXCEPT !.packagings = rows] :
            rows \in SeqsUpTo(ScorerPackagingRows, MaxPackagings)}
    \cup {[BareProduct EXCEPT !.manufacturing_places = l] : l \in ScoreLocations}

\* the external geocoder's replies, with the distances next to every band
\* boundary
ScorerAnswers == ExternalAnswers \cup {"ext:regional", "ext:continental"}

\* product 1 is in the repository, product 2 is not
ScorerProductIds == {1, 2}

InitScorers ==
    /\ products \in {<<p>> : p \in ScorerProducts}
    /\ geocache = <<>>
    /\ scorerCall = <<>> /\ scoreLog = <<>> /\ savers = <<>> /\ geo = <<>> /\ links = <<>>
    /\ IdleBarcode /\ IdleScore /\ IdleRec /\ IdleScan

\* ScoringService.calculate_raw_materials_score (scoring_service.py:32-69)
ScoreRawMaterials ==
    \E product_id \in ScorerProductIds :
      /\ scorerCall' = <<[scorer |-> "raw_materials", product_id |-> product_id,
                          result |-> calculate_raw_materials_score(products, product_id)]>>
      /\ UNCHANGED <<geo, links, products, geocache, scoreLog, savers,
                     barcodeVars, scoreVars, recVars, scanVars>>

\* ScoringService.calculate_packaging_score (scoring_service.py:235-357)
ScorePackaging ==
    \E product_id \in ScorerProductIds :
      /\ scorerCall' = <<[scorer |-> "packaging", product_id |-> product_id,
                          result |-> calculate_packaging_score(products, product_id)]>>
      /\ UNCHANGED <<geo, links, products, geocache, scoreLog, savers,
                     barcodeVars, scoreVars, recVars, scanVars>>

\* ScoringService.calculate_transportation_score (scoring_service.py:359-463)
ScoreTransportation ==
    \E product_id \in ScorerProductIds, dest \in Destinations :
      \E answer \in IF AnswersFor(products, Some(product_id), geocache) = {None}
                    THEN {None} ELSE ScorerAnswers :
        /\ scorerCall' = <<[scorer |-> "transportation", product_id |-> product_id,
                            dest |-> dest,
                            result |-> calculate_transportation_score(
                                          products, product_id, dest, geocache, answer)]>>
        /\ geocache' = TransportCacheAfter(products, product_id, geocache, answer)
        /\ UNCHANGED <<geo, links, products, scoreLog, savers,
                       barcodeVars, scoreVars, recVars, scanVars>>

\* IngredientAnalysisService.analyze_ingredients
\* (ingredient_analysis_service.py:16-128)
AnalyzeIngredients ==
    \E product_id \in ScorerProductIds :
      /\ scorerCall' = <<[scorer |-> "ingredients", product_id |-> product_id,
                          result |-> analyze_ingredients(products, product_id)]>>
      /\ UNCHANGED <<geo, links, products, geocache, scoreLog, savers,
                     barcodeVars, scoreVars, recVars, scanVars>>

NextScorers ==
    ScoreRawMaterials \/ ScorePackaging \/ ScoreTransportation \/ AnalyzeIngredients

SpecScorers == InitScorers /\ [][NextScorers]_vars

\* the call the scorers' claims speak of
Scored(scorer) ==
    scorerCall # <<>> /\ scorerCall[1].scorer = scorer /\ scorerCall[1].product_id = 1


(***************************************************************************)
(* Sub-scorers: claims                                                     *)
(***************************************************************************)
\* the fixed thresholds of the raw-materials scorer on co2 = n / d kg
ThresholdPoints(n, d) ==
    IF n < d THEN 10
    ELSE IF n < 2 * d THEN 5
    ELSE IF n < 5 * d THEN 0
    ELSE IF n < 10 * d THEN -5
    ELSE -15

\* C11: for every ingredient list and processing tier the raw-materials
\* points are the threshold band of the final CO2 figure, the figure the
\* scorer converts: below 1.0 kg +10, below 2.0 +5, below 5.0 0, below
\* 10.0 -5, otherwise -15; so the points lie in [-15, +10].
C11_PointsByThresholds ==
    Scored("raw_materials") =>
        LET r == scorerCall[1].result
        IN  /\ r.points = Some(ThresholdPoints(r.total_co2[1], r.total_co2[2]))
            /\ Val(r.points) \in {-15, -5, 0, 5, 10}

\* a product whose final CO2 is exactly 1.0 kg is scored +5, not +10
C11_Witness ==
    /\ Scored("raw_materials")
    /\ products[1].ingredients # <<>>
    /\ scorerCall[1].result.total_co2[1] = scorerCall[1].result.total_co2[2]
    /\ scorerCall[1].result.points = Some(5)

\* the scorer takes the tier-only path: no ingredients, or none of them
\* with an emission factor
TierOnly(product) ==
    \A i \in 1..Len(product.ingredients) : ~IsNum(product.ingredients[i].co2)

\* the tier-only estimates as the claim lists them, in tenths of kg
ClaimedEstimate(nova_group) ==
    IF nova_group = Some(1) THEN 8
    ELSE IF nova_group = Some(2) THEN 15
    ELSE 30

\* the tier-only estimates with 5.0 kg for tier 4, in tenths of kg
AmendedEstimate(nova_group) ==
    IF nova_group = Some(4) THEN 50 ELSE ClaimedEstimate(nova_group)

\* C12 (as claimed): on the tier-only path the scorer returns 0.8 kg for
\* tier 1, 1.5 kg for tier 2, 3.0 kg for tier 3 and 3.0 kg for tier 4 or
\* an unknown tier, with the points of the thresholds and confidence low.
C12_Original ==
    (Scored("raw_materials") /\ TierOnly(products[1])) =>
        LET r == scorerCall[1].result
            e == ClaimedEstimate(products[1].nova_group)
        IN  /\ r.total_co2[1] * 10 = e * r.total_co2[2]
            /\ r.points = Some(ThresholdPoints(e, 10))
            /\ r.confidence = "low"

\* C12 (amended): on the tier-only path the scorer returns 0.8 kg for tier
\* 1, 1.5 kg for tier 2, 3.0 kg for tier 3, 5.0 kg for tier 4 and 3.0 kg
\* for an unknown tier, with the points of the thresholds and confidence
\* low.
C12_TierOnlyEstimate ==
    (Scored("raw_materials") /\ TierOnly(products[1])) =>
        LET r == scorerCall[1].result
            e == AmendedEstimate(products[1].nova_group)
        IN  /\ r.total_co2[1] * 10 = e * r.total_co2[2]
            /\ r.points = Some(ThresholdPoints(e, 10))
            /\ r.confidence = "low"

\* a tier-4 product whose ingredients carry no emission factor: 5.0 kg and
\* -5 points
C12_Witness ==
    /\ Scored("raw_materials")
    /\ products[1].ingredients # <<>>
    /\ TierOnly(products[1])
    /\ products[1].nova_group = Some(4)
    /\ scorerCall[1].result.total_co2 = <<50, 10>>
    /\ scorerCall[1].result.points = Some(-5)
    /\ scorerCall[1].result.confidence = "low"

\* the tier multipliers as the claim lists them, in tenths
ClaimedMultiplier(nova_group) ==
    IF nova_group = Some(1) THEN 10
    ELSE IF nova_group = Some(2) THEN 11
    ELSE IF nova_group = Some(3) THEN 12
    ELSE 15

\* the tier multipliers with 1.2 for an unknown tier, in tenths
AmendedMultiplier(nova_group) ==
    IF nova_group = Some(4) THEN 15
    ELSE IF nova_group \in {Some(1), Some(2), Some(3)} THEN ClaimedMultiplier(nova_group)
    ELSE 12

\* the ingredient-weighted base CO2 of a product as <<numerator, denominator>>
BaseCo2(product) ==
    LET rows == product.ingredients
        has_percentages == \E i \in 1..Len(rows) : IsNum(rows[i].pct)
    IN  <<SumCo2(rows, has_percentages, Len(rows)), Co2Den(Len(rows))>>

RECURSIVE Gcd(_, _)
Gcd(a, b) == IF b = 0 THEN a ELSE Gcd(b, a % b)

\* n / d equals the base CO2 of the product times multiplier / 10; the
\* cross-multiplication is done after dividing the denominators by their
\* greatest common divisor
IsBaseTimes(n, d, product, multiplier) ==
    LET g == Gcd(d, BaseCo2(product)[2])
    IN  n * (BaseCo2(product)[2] \div g) * 10
            = BaseCo2(product)[1] * multiplier * (d \div g)

\* C20 (as claimed): with at least one emission factor the base CO2 is
\* multiplied by 1.0 for tier 1, 1.1 for tier 2, 1.2 for tier 3 and 1.5
\* for tier 4 or an unknown tier before it is converted to points.
C20_Original ==
    (Scored("raw_materials") /\ ~TierOnly(products[1])) =>
        LET r == scorerCall[1].result
        IN  /\ IsBaseTimes(r.total_co2[1], r.total_co2[2], products[1],
                           ClaimedMultiplier(products[1].nova_group))
            /\ r.points = Some(ThresholdPoints(r.total_co2[1], r.total_co2[2]))

\* C20 (amended): with at least one emission factor the base CO2 is
\* multiplied by 1.0 for tier 1, 1.1 for tier 2, 1.2 for tier 3, 1.5 for
\* tier 4 and 1.2 for an unknown tier before it is converted to points.
C20_TierMultiplier ==
    (Scored("raw_materials") /\ ~TierOnly(products[1])) =>
        LET r == scorerCall[1].result
        IN  /\ IsBaseTimes(r.total_co2[1], r.total_co2[2], products[1],
                           AmendedMultiplier(products[1].nova_group))
            /\ r.points = Some(ThresholdPoints(r.total_co2[1], r.total_co2[2]))

\* a product of unknown tier with base CO2 10.0 kg: 12.0 kg after the
\* multiplier
C20_Witness ==
    /\ Scored("raw_materials")
    /\ products[1].nova_group = NoneV
    /\ BaseCo2(products[1])[1] = 10 * BaseCo2(products[1])[2]
    /\ scorerCall[1].result.total_co2[1] * 10 = 120 * scorerCall[1].result.total_co2[2]
    /\ scorerCall[1].result.points = Some(-15)


\* the weight the claim gives component i: the declared percent; nothing
\* for an undeclared component next to a declared one; one share each when
\* no component declares a weight
ClaimedWeight(rows, i) ==
    IF IsNum(rows[i].weight) THEN Val(rows[i].weight)
    ELSE IF \E j \in 1..Len(rows) : IsNum(rows[j].weight) THEN 0
    ELSE 1

RECURSIVE WeightedAdjustments(_, _)
\* the sum of adjustment * weight over the first k components
WeightedAdjustments(rows, k) ==
    IF k = 0 THEN 0
    ELSE rows[k].adj * ClaimedWeight(rows, k) + WeightedAdjustments(rows, k - 1)

RECURSIVE TotalWeight(_, _)
\* the sum of the weights of the first k components
TotalWeight(rows, k) ==
    IF k = 0 THEN 0 ELSE ClaimedWeight(rows, k) + TotalWeight(rows, k - 1)

\* p is an integer nearest to s / w, w > 0
IsNearest(p, s, w) ==
    (IF p * w >= s THEN 2 * (p * w - s) ELSE 2 * (s - p * w)) <= w

\* points is the clamp to [-15, +10] of an integer nearest to s / w
IsRoundedAndClamped(points, s, w) ==
    \E p \in -25..15 : IsNearest(p, s, w) /\ points = Some(Max(-15, Min(10, p)))

\* C13 (as claimed): for every non-empty set of packaging components the
\* points are the weight-normalized average of the adjustments, rounded
\* to the nearest integer and clamped to [-15, +10]; declared weights
\* count, undeclared components are skipped next to a declared one, and
\* all weigh equally when none is declared.
C13_Original ==
    (Scored("packaging") /\ products[1].packagings # <<>>) =>
        LET rows == products[1].packagings
            s == WeightedAdjustments(rows, Len(rows))
            w == TotalWeight(rows, Len(rows))
        IN  w > 0 /\ IsRoundedAndClamped(scorerCall[1].result.points, s, w)

\* C13 (amended): as claimed whenever the counted weights add up to more
\* than zero, a tie going to either neighbour; when they add up to zero
\* the points are 0.
C13_WeightedAverage ==
    (Scored("packaging") /\ products[1].packagings # <<>>) =>
        LET rows == products[1].packagings
            s == WeightedAdjustments(rows, Len(rows))
            w == TotalWeight(rows, Len(rows))
        IN  IF w > 0 THEN IsRoundedAndClamped(scorerCall[1].result.points, s, w)
            ELSE scorerCall[1].result.points = Some(0)

\* an undeclared component next to 10 at 70%: it is skipped and the
\* points are +10
C13_Witness ==
    /\ Scored("packaging")
    /\ products[1].packagings = <<[adj |-> -15, weight |-> NoneV],
                                  [adj |-> 10, weight |-> Some(70)]>>
    /\ scorerCall[1].result.points = Some(10)

\* the two components of the example, in either order
IsExamplePackaging(rows) ==
    rows \in {<<[adj |-> 10, weight |-> Some(70)], [adj |-> -15, weight |-> Some(30)]>>,
              <<[adj |-> -15, weight |-> Some(30)], [adj |-> 10, weight |-> Some(70)]>>}

\* C14 (as claimed): with weights 70% and 30% and adjustments +10 and -15
\* the weighted average is 2.5 and the scorer returns 3 points.
C14_Original ==
    (Scored("packaging") /\ IsExamplePackaging(products[1].packagings)) =>
        LET rows == products[1].packagings
        IN  /\ 2 * WeightedAdjustments(rows, 2) = 5 * TotalWeight(rows, 2)
            /\ scorerCall[1].result.points = Some(3)

\* C14 (amended): with weights 70% and 30% and adjustments +10 and -15
\* the weighted average is 2.5 and the scorer returns 2 points.
C14_ExampleReturnsTwo ==
    (Scored("packaging") /\ IsExamplePackaging(products[1].packagings)) =>
        LET rows == products[1].packagings
        IN  /\ 2 * WeightedAdjustments(rows, 2) = 5 * TotalWeight(rows, 2)
            /\ scorerCall[1].result.points = Some(2)

\* the example has been scored
C14_Witness ==
    /\ Scored("packaging")
    /\ products[1].packagings = <<[adj |-> 10, weight |-> Some(70)],
                                  [adj |-> -15, weight |-> Some(30)]>>
    /\ scorerCall[1].result.points = Some(2)
    /\ scorerCall[1].result.confidence = "high"


\* the distance bands of the transportation scorer: <<points, mode,
\* emission factor in thousandths of kg CO2 per tonne-km>>
ClaimedBand(distance_km) ==
    IF distance_km < 100 THEN <<0, "truck_local", 200>>
    ELSE IF distance_km < 500 THEN <<-2, "truck_regional", 200>>
    ELSE IF distance_km < 2000 THEN <<-5, "truck_national", 200>>
    ELSE IF distance_km < 5000 THEN <<-8, "rail_truck", 100>>
    ELSE <<-10, "sea_truck", 50>>

\* the scorer produced a score: no non-scoring status
TransportScored ==
    Scored("transportation") /\ scorerCall[1].result.status = None

ClaimedClass(row) ==
    IF row.health \in {None, ""} THEN "good" ELSE row.health

\* the number of ingredients of the class
ClaimedCount(rows, class) ==
    Cardinality({i \in 1..Len(rows) : ClaimedClass(rows[i]) = class})

\* C16: for a product with at least one ingredient analyze_ingredients
\* reports data_available = true, every ingredient under its stored
\* classification (good when none is stored), the counts of good, caution
\* and harmful ingredients and the number of ingredients as total; for a
\* product without ingredients it reports data_available = false, counts
\* of 0 and an empty ingredient list, and it returns in either case.
C16_IngredientSummary ==
    (scorerCall # <<>> /\ scorerCall[1].scorer = "ingredients") =>
        LET r == scorerCall[1].result
            rows == IF scorerCall[1].product_id \in DOMAIN products
                    THEN products[scorerCall[1].product_id].ingredients
                    ELSE <<>>
        IN  /\ r.data_available = (rows # <<>>)
            /\ Len(r.ingredients) = Len(rows)
            /\ \A i \in 1..Len(rows) : r.ingredients[i] = ClaimedClass(rows[i])
            /\ r.total = Len(rows)
            /\ r.good = ClaimedCount(rows, "good")
            /\ r.caution = ClaimedCount(rows, "caution")
            /\ r.harmful = ClaimedCount(rows, "harmful")

\* two ingredients, one without a stored classification and one stored
\* as caution
C16_Witness ==
    /\ Scored("ingredients")
    /\ Len(products[1].ingredients) = 2
    /\ products[1].ingredients[1].health = None
    /\ products[1].ingredients[2].health = "caution"
    /\ scorerCall[1].result.data_available
    /\ scorerCall[1].result.good = 1
    /\ scorerCall[1].result.caution = 1
    /\ scorerCall[1].result.total = 2


(***************************************************************************)
(* Repeated scoring: the workflow's score computation called again and     *)
(* again in one process, the product re-ingested now and then              *)
(***************************************************************************)
RescoreProducts ==
    {[BareProduct EXCEPT !.manufacturing_places = l] : l \in ScoreLocations}

InitRescore ==
    /\ products \in {<<p>> : p \in RescoreProducts}
    /\ geocache = <<>>
    /\ scoreLog = <<>> /\ scorerCall = <<>> /\ savers = <<>> /\ geo = <<>> /\ links = <<>>
    /\ IdleBarcode /\ IdleScore /\ IdleRec /\ IdleScan

\* ProductScanWorkflow._calculate_scores (product_scan_workflow.py:241-343)
\* for a product id and a destination; scoreLog keeps the last two calls,
\* each with the repository it read, the sub-scorers' results and the
\* scores returned
ComputeScores ==
    \E product_id \in ScorerProductIds, dest \in Destinations :
      \E answer \in AnswersFor(products, Some(product_id), geocache) :
        LET sub == SubScores(products, product_id, dest, geocache, answer)
            call == [product_id |-> product_id, dest |-> dest, db |-> products,
                     sub |-> sub, scores |-> _calculate_scores(Some(product_id), sub)]
        IN  /\ scoreLog' = IF Len(scoreLog) = 2 THEN <<scoreLog[2], call>>
                           ELSE Append(scoreLog, call)
            /\ geocache' = TransportCacheAfter(products, product_id, geocache, answer)
            /\ UNCHANGED <<geo, links, products, scorerCall, savers,
                           barcodeVars, scoreVars, recVars, scanVars>>

\* ProductStorageService.save_product on a product already stored
\* (product_storage.py:393-451): the row is rewritten, here with another
\* manufacturing place
ReingestProduct ==
    \E l \in ScoreLocations :
      /\ l # products[1].manufacturing_places
      /\ products' = [products EXCEPT ![1].manufacturing_places = l]
      /\ UNCHANGED <<geo, links, geocache, scoreLog, scorerCall, savers,
                     barcodeVars, scoreVars, recVars, scanVars>>

NextRescore == ComputeScores \/ ReingestProduct

SpecRescore == InitRescore /\ [][NextRescore]_vars

\* two consecutive calls for the same product and destination on the
\* same repository state
SameCallTwice ==
    /\ Len(scoreLog) = 2
    /\ scoreLog[1].product_id = scoreLog[2].product_id
    /\ scoreLog[1].dest = scoreLog[2].dest
    /\ scoreLog[1].db = scoreLog[2].db

\* C17: two consecutive score computations for the same product and
\* destination on an unchanged repository return identical results,
\* whatever the external geocoder answers when it is asked.
C17_RepeatableScores ==
    SameCallTwice =>
        /\ scoreLog[1].scores = scoreLog[2].scores
        /\ scoreLog[1].sub = scoreLog[2].sub

\* the same call twice for a product whose location only the external
\* geocoder can resolve, the first lookup having failed
C17_Witness ==
    /\ SameCallTwice
    /\ scoreLog[1].product_id = 1
    /\ products[1].manufacturing_places = Some(LocAtlantis)
    /\ scoreLog[1].sub.transportation.status = "geocoding_failed"
    /\ scoreLog[2].sub.transportation.status = "geocoding_failed"


(***************************************************************************)
(* Concurrent saves: two requests of the catalogue augmentation, each on   *)
(* its own pooled connection (db.py:25-31, autocommit), persist a          *)
(* catalogue record.  Every SQL statement is one step.  The schema is not  *)
(* among the sources: products.upc may or may not carry a unique           *)
(* constraint.                                                             *)
(***************************************************************************)
\* the records the two requests may have been handed by the catalogue
SaveRecords == {CatalogNew, CatalogKnown}

\* the repository before the requests: empty, or holding product 2's code
SaveDatabases == {<<>>, <<RecRow(RecUpc(2), "snacks", "c55")>>}

\* a request that has not run yet
NewSaver(off_product) ==
    [off_product |-> off_product, pc |-> "start", existing |-> NoneV, id |-> NoneV]

InitSave ==
    /\ products \in SaveDatabases
    /\ geocache = <<>>
    /\ savers \in [unique_upc : BOOLEAN,
                   requests : {<<NewSaver(a), NewSaver(b)>> : a, b \in SaveRecords}]
    /\ scorerCall = <<>> /\ scoreLog = <<>> /\ geo = <<>> /\ links = <<>>
    /\ IdleBarcode /\ IdleScore /\ IdleRec /\ IdleScan

\* savers with request r replaced
WithSaver(r, saver) == [savers EXCEPT !.requests[r] = saver]

\* recommendation_service.py:106-110: the loop's own lookup; a code with a
\* row is skipped without a save
CheckInLoop ==
    \E r \in 1..2 :
      LET s == savers.requests[r]
      IN  /\ s.pc = "start"
          /\ savers' = WithSaver(r, [s EXCEPT !.pc =
                           IF FindByUpc(products, s.off_product.code) # {}
                           THEN "skipped" ELSE "checked"])
          /\ UNCHANGED <<geo, links, products, geocache, scorerCall, scoreLog,
                         barcodeVars, scoreVars, recVars, scanVars>>

\* product_storage.py:389-390: SELECT id FROM products WHERE upc = %s
SelectExisting ==
    \E r \in 1..2 :
      LET s == savers.requests[r]
          found == FindByUpc(products, s.off_product.code)
      IN  /\ s.pc = "checked"
          /\ savers' = WithSaver(r, [s EXCEPT
                          !.pc = "selected",
                          !.existing = IF found = {} THEN NoneV
                                       ELSE Some(CHOOSE id \in found :
                                                     \A o \in found : id <= o)])
          /\ UNCHANGED <<geo, links, products, geocache, scorerCall, scoreLog,
                         barcodeVars, scoreVars, recVars, scanVars>>

\* product_storage.py:392-489: UPDATE of the row found, or INSERT ...
\* RETURNING id; under a unique constraint the INSERT of a code that has
\* got a row in the meantime raises, and the loop's except clause
\* (recommendation_service.py:131-133) takes the next record
WriteProductRow ==
    \E r \in 1..2 :
      LET s == savers.requests[r]
          row == [InsertedRow(s.off_product) EXCEPT
                     !.category = None, !.ingredients = <<>>, !.packagings = <<>>,
                     !.climate = NoneV]
      IN  /\ s.pc = "selected"
          /\ IF IsNum(s.existing)
             THEN /\ products' = [products EXCEPT ![Val(s.existing)] =
                                     [@ EXCEPT !.nova_group = s.off_product.nova_group,
                                               !.manufacturing_places =
                                                   s.off_product.manufacturing_places]]
                  /\ savers' = WithSaver(r, [s EXCEPT !.pc = "written", !.id = s.existing])
             ELSE IF savers.unique_upc /\ FindByUpc(products, s.off_product.code) # {}
             THEN /\ products' = products
                  /\ savers' = WithSaver(r, [s EXCEPT !.pc = "failed"])
             ELSE /\ products' = Append(products, row)
                  /\ savers' = WithSaver(r, [s EXCEPT !.pc = "written",
                                                      !.id = Some(Len(products) + 1)])
          /\ UNCHANGED <<geo, links, geocache, scorerCall, scoreLog,
                         barcodeVars, scoreVars, recVars, scanVars>>

\* product_storage.py:491-726: the category, ingredient and packaging rows
\* of the product id, then "return product_id"
WriteDetails ==
    \E r \in 1..2 :
      LET s == savers.requests[r]
      IN  /\ s.pc = "written"
          /\ products' = [products EXCEPT ![Val(s.id)] =
                             UpdatedRow(products[Val(s.id)], s.off_product)]
          /\ savers' = WithSaver(r, [s EXCEPT !.pc = "saved"])
          /\ UNCHANGED <<geo, links, geocache, scorerCall, scoreLog,
                         barcodeVars, scoreVars, recVars, scanVars>>

NextSave == CheckInLoop \/ SelectExisting \/ WriteProductRow \/ WriteDetails

SpecSave == InitSave /\ [][NextSave]_vars

\* both requests are through with the same record, whose code had no row
\* when they began
BothThroughWithNew ==
    /\ savers # <<>>
    /\ savers.requests[1].off_product = savers.requests[2].off_product
    /\ \A r \in 1..2 : savers.requests[r].pc \in {"skipped", "saved", "failed"}
    /\ \E r \in 1..2 : savers.requests[r].pc = "saved"
                       /\ savers.requests[r].existing = NoneV

CatalogPadded == CatalogRecord(Example13, "c70")

\* the catalogue's record of the baseline product itself
CatalogSelf == CatalogRecord(RecUpc(1), "c70")

AugmentRecords == {CatalogNew, CatalogKnown, CatalogPadded, CatalogSelf}

\* product 1, alone or with a product stored under its 12-digit code
AugmentDatabases ==
    {<<RecRow(RecUpc(1), "snacks", "base")>>}
    \cup {<<RecRow(RecUpc(1), "snacks", "base"), RecRow(Example12, category, "c55")>> :
            category \in {"snacks", "drinks"}}

AugmentResponses ==
    {[kind |-> "http", status |-> 200, products |-> l] :
        l \in SeqsUpTo(AugmentRecords, MaxCatalog)}

InitAugment ==
    /\ products \in AugmentDatabases
    /\ geocache = <<>>
    /\ rpc = "ready" /\ recCall = <<>> /\ recs = <<>>
    /\ IdleBarcode /\ IdleScore /\ IdleScan /\ IdleLate

\* RecommendationService.get_recommendations for product 1
\* (recommendation_service.py:210-293), every save succeeding
AugmentRecommendations ==
    /\ rpc = "ready"
    /\ \E category \in {"snacks", None}, current_score \in RecBaselines :
       \E order \in LocalOrders(products, 1, category) :
       \E response \in IF ResponsesFor(products, 1, category, order) = {NotAsked}
                       THEN {NotAsked} ELSE AugmentResponses :
         LET r == get_recommendations(products, 1, category, current_score,
                                      order, response, NoFault, {})
         IN  /\ products' = r.db
             /\ recCall' = [category |-> category,
                            current_score |-> current_score,
                            response |-> response,
                            requests |-> r.requests,
                            fault |-> NoFault,
                            failing |-> {},
                            local |-> r.local,
                            pool |-> r.pool]
             /\ recs' = r.recommendations
             /\ rpc' = "done"
             /\ UNCHANGED <<geocache, barcodeVars, scoreVars, scanVars, lateVars>>

NextAugment == AugmentRecommendations

SpecAugment == InitAugment /\ [][NextAugment]_vars

\* the 13-digit zero-padded form of a stored code
CanonicalBarcode(upc) == get_primary_barcode(upc)

AnyPercent(rows) == \E i \in 1..Len(rows) : IsNum(rows[i].pct)

\* ingredient i is apportioned as the claim says: it has an emission
\* factor and a percent of its own, or no ingredient of the list has one
ClaimedApportioned(rows, i) ==
    IsNum(rows[i].co2) /\ (IsNum(rows[i].pct) \/ ~AnyPercent(rows))

RECURSIVE ClaimedBase(_, _)
\* the sum of percent / 100 * emission factor over the apportioned ones of
\* the first k ingredients, as a numerator over 10000 * Len(rows): the own
\* percent, or 100 / Len(rows) when no ingredient has a percent
ClaimedBase(rows, k) ==
    IF k = 0 THEN 0
    ELSE (IF ~ClaimedApportioned(rows, k) THEN 0
          ELSE IF IsNum(rows[k].pct) THEN Val(rows[k].pct) * Val(rows[k].co2) * Len(rows)
          ELSE 100 * Val(rows[k].co2))
         + ClaimedBase(rows, k - 1)

\* C21: with at least one emission factor the base CO2 is the sum of
\* percent / 100 * emission factor over the ingredients with an emission
\* factor, the percent being the ingredient's own, an ingredient without
\* one being skipped next to an ingredient with one, and every ingredient
\* getting 100 / ingredient_count when none has one; the final figure is
\* that base times the tier multiplier (60% at 0.5 with 40% at 1.5 and
\* tier 1: 0.9 kg, +10 points).
C21_BaseCo2 ==
    (Scored("raw_materials") /\ ~TierOnly(products[1])) =>
        LET r == scorerCall[1].result
            rows == products[1].ingredients
        IN  /\ r.total_co2[1] * 10
                  = ClaimedBase(rows, Len(rows)) * AmendedMultiplier(products[1].nova_group)
                    * (r.total_co2[2] \div (10000 * Len(rows)))
            /\ r.total_co2[2] % (10000 * Len(rows)) = 0
            /\ r.points = Some(ThresholdPoints(r.total_co2[1], r.total_co2[2]))

\* the documented example
C21_Witness ==
    /\ Scored("raw_materials")
    /\ products[1].nova_group = Some(1)
    /\ Len(products[1].ingredients) = 2
    /\ products[1].ingredients[1].pct = Some(60) /\ products[1].ingredients[1].co2 = Some(50)
    /\ products[1].ingredients[2].pct = Some(40) /\ products[1].ingredients[2].co2 = Some(150)
    /\ scorerCall[1].result.total_co2[1] * 10 = 9 * scorerCall[1].result.total_co2[2]
    /\ scorerCall[1].result.points = Some(10)
    /\ scorerCall[1].result.confidence = "high"


(***************************************************************************)
(* The scorers on products with longer ingredient lists of three kinds of  *)
(* row: the coverage takes the values k / n up to n =                      *)
(* MaxCoverageIngredients                                                  *)
(***************************************************************************)
\* an ingredient with percent and emission factor, one with an emission
\* factor only, one with a percent only
CoverageRows ==
    {[pct |-> Some(10), co2 |-> Some(100), health |-> None],
     [pct |-> NoneV, co2 |-> Some(100), health |-> None],
     [pct |-> Some(10), co2 |-> NoneV, health |-> None]}

CoverageProducts ==
    {[BareProduct EXCEPT !.ingredients = rows] :
        rows \in SeqsUpTo(CoverageRows, MaxCoverageIngredients)}

InitCoverage ==
    /\ products \in {<<p>> : p \in CoverageProducts}
    /\ geocache = <<>>
    /\ scorerCall = <<>> /\ scoreLog = <<>> /\ savers = <<>> /\ geo = <<>> /\ links = <<>>
    /\ IdleBarcode /\ IdleScore /\ IdleRec /\ IdleScan

SpecCoverage == InitCoverage /\ [][NextScorers]_vars

\* the number of apportioned ingredients
ClaimedApportionedCount(rows) ==
    Cardinality({i \in 1..Len(rows) : ClaimedApportioned(rows, i)})

\* coverage k / n is at least tenths / 10; the coverage of an empty list
\* is 0
CoverageAtLeast(k, n, tenths) == n > 0 /\ 10 * k >= tenths * n

\* the confidence the claim gives
ClaimedConfidence(has_percentages, k, n) ==
    IF has_percentages /\ CoverageAtLeast(k, n, 8) THEN "high"
    ELSE IF CoverageAtLeast(k, n, 5) THEN "medium"
    ELSE "low"

ConfidenceRank(confidence) ==
    IF confidence = "high" THEN 2 ELSE IF confidence = "medium" THEN 1 ELSE 0

\* C22: the raw-materials confidence is high iff some ingredient has a
\* percent-estimate and the coverage is at least 0.8, else medium iff the
\* coverage is at least 0.5, else low; and with the same answer to "has
\* any ingredient a percent-estimate" no smaller coverage has a higher
\* confidence.
C22_ConfidenceByCoverage ==
    Scored("raw_materials") =>
        LET r == scorerCall[1].result
            rows == products[1].ingredients
            n == Len(rows)
            k == ClaimedApportionedCount(rows)
        IN  /\ r.confidence = ClaimedConfidence(AnyPercent(rows), k, n)
            /\ \A n2 \in 1..MaxCoverageIngredients : \A k2 \in 0..n2 :
                  (IF n = 0 THEN k2 = 0 ELSE k2 * n <= k * n2) =>
                      ConfidenceRank(_determine_confidence(AnyPercent(rows), k2, n2))
                          <= ConfidenceRank(r.confidence)

\* five ingredients, four of them apportioned: coverage 0.8, confidence
\* high
C22_Witness ==
    /\ Scored("raw_materials")
    /\ Len(products[1].ingredients) = 5
    /\ AnyPercent(products[1].ingredients)
    /\ ClaimedApportionedCount(products[1].ingredients) = 4
    /\ scorerCall[1].result.confidence = "high"


\* C27 (as claimed): whenever the raw-materials scorer takes its points
\* from ingredient data and not from the tier-only estimate, at least one
\* ingredient was apportioned: the points never come from an empty CO2
\* sum.
C27_Original ==
    (Scored("raw_materials")
        /\ scorerCall[1].result.fallback_used # "nova_only_estimate") =>
            /\ scorerCall[1].result.with_data > 0
            /\ ClaimedApportionedCount(products[1].ingredients) > 0


\* C23 (as claimed): for the same product, destination and repository the
\* sustainability score inside the recommendation score equals the total
\* score of the workflow's score computation: both aggregate the same
\* four sub-scorers, the transportation delta for the request's
\* destination included.
C23_Original ==
    (wfSub # <<>> /\ recScores # <<>>) =>
        /\ recScores[1].sustainability_score = wfScores[1].total_score
        /\ recScores[1].sustainability_score
              = ClampedTotal(NumOrZero(wfSub[1].raw_materials.points),
                             NumOrZero(wfSub[1].packaging.points),
                             NumOrZero(wfSub[1].transportation.points),
                             NumOrZero(wfSub[1].climate_efficiency.points))


\* the candidates a call added to those of the local lookup
AddedCount == Len(recCall.pool) - Len(recCall.local)

MaxClock == 5

\* geocoding_service.py:76 time.sleep(1), in ticks
SleepTicks == 2

\* the same place written in another case and with a trailing blank
LocAtlantisPadded == <<"a", "t", "l", "a", "n", "t", "i", "s", " ">>

\* scoring_service.py:423: the manufacturing places the scorer passes on
GeoTexts == {LocUsa, LocAtlantis, LocAtlantisPadded}

\* one request at a time, or two requests served by two threads
GeoThreadCounts == {1, 2}

GeoIdle == [pc |-> "idle", text |-> <<>>, wake |-> 0]

InitGeocode ==
    /\ products = <<>>
    /\ geocache = <<>>
    /\ geo \in {[now |-> 0, threads |-> [t \in 1..n |-> GeoIdle], sent |-> <<>>] :
                   n \in GeoThreadCounts}
    /\ scorerCall = <<>> /\ scoreLog = <<>> /\ savers = <<>> /\ links = <<>>
    /\ IdleBarcode /\ IdleScore /\ IdleRec /\ IdleScan

\* geocoding_service.py:37-61 up to the call of _geocode_nominatim: a cache
\* hit and a built-in location return at once, any other text enters
\* _geocode_nominatim and sleeps (line 76)
CallGeocode ==
    \E t \in DOMAIN geo.threads, location_text \in GeoTexts :
      /\ geo.threads[t].pc = "idle"
      /\ IF location_text \in DOMAIN geocache
         THEN UNCHANGED <<geocache, geo>>
         ELSE IF ~NeedsExternal(location_text)
         THEN /\ geocache' = CacheAfter(geocache, location_text, None)
              /\ UNCHANGED geo
         ELSE /\ geo' = [geo EXCEPT !.threads[t] =
                            [pc |-> "sleeping", text |-> location_text,
                             wake |-> geo.now + SleepTicks]]
              /\ UNCHANGED geocache
      /\ UNCHANGED <<links, products, scorerCall, scoreLog, savers,
                     barcodeVars, scoreVars, recVars, scanVars>>

\* geocoding_service.py:89-94: the GET, sent once the sleep is over
SendRequest ==
    \E t \in DOMAIN geo.threads :
      /\ geo.threads[t].pc = "sleeping"
      /\ geo.now >= geo.threads[t].wake
      /\ geo' = [geo EXCEPT !.threads[t].pc = "waiting",
                            !.sent = Append(@, [text |-> geo.threads[t].text,
                                                at |-> geo.now])]
      /\ UNCHANGED <<links, products, geocache, scorerCall, scoreLog, savers,
                     barcodeVars, scoreVars, recVars, scanVars>>

\* geocoding_service.py:96-115 and the lru_cache storing the value returned
ReceiveAnswer ==
    \E t \in DOMAIN geo.threads, answer \in {"ext:near", None} :
      /\ geo.threads[t].pc = "waiting"
      /\ geocache' = CacheAfter(geocache, geo.threads[t].text,
                                _geocode_nominatim(answer))
      /\ geo' = [geo EXCEPT !.threads[t] = GeoIdle]
      /\ UNCHANGED <<links, products, scorerCall, scoreLog, savers,
                     barcodeVars, scoreVars, recVars, scanVars>>

\* half a second passes
Tick ==
    /\ geo.now < MaxClock
    /\ geo' = [geo EXCEPT !.now = @ + 1]
    /\ UNCHANGED <<links, products, geocache, scorerCall, scoreLog, savers,
                   barcodeVars, scoreVars, recVars, scanVars>>

NextGeocode == CallGeocode \/ SendRequest \/ ReceiveAnswer \/ Tick

SpecGeocode == InitGeocode /\ [][NextGeocode]_vars

\* the calls came one after the other
SequentialCalls == geo # <<>> /\ Len(geo.threads) = 1

\* C25: an external geocoding request is made only for a text that misses
\* the built-in table and the cache, both looked up by the normalized text:
\* calls made one after the other whose texts normalize to the same string
\* cause at most one external request, and none when the normalized text is
\* in the built-in table.
C25_Original ==
    SequentialCalls =>
        /\ \A i \in 1..Len(geo.sent) :
              NormalizeLocation(geo.sent[i].text) \notin COMMON_LOCATION_KEYS
        /\ \A i, j \in 1..Len(geo.sent) :
              i < j => NormalizeLocation(geo.sent[i].text)
                           # NormalizeLocation(geo.sent[j].text)

\* C26: no two requests to the external geocoding service are sent less
\* than one second apart, also when concurrent requests miss the cache.
C26_Original ==
    geo # <<>> =>
        \A i, j \in 1..Len(geo.sent) :
            i < j => geo.sent[j].at - geo.sent[i].at >= SleepTicks


\* C28: processed sequentially, for any repository and any catalogue
\* response, every candidate in the pool of get_recommendations(product_id),
\* local or newly persisted, has an id other than product_id (here 1), and
\* so has the product of every recommendation returned.
C28_BaselineNeverCandidate ==
    recCall # <<>> =>
        /\ \A i \in 1..Len(recCall.pool) :
              /\ recCall.pool[i].id # 1
              /\ recCall.pool[i].id \in DOMAIN products
              /\ products[recCall.pool[i].id].upc = recCall.pool[i].upc
        /\ \A i \in 1..Len(recs) : 1 \notin FindByUpc(products, recs[i].upc)

\* the catalogue listed the baseline product itself before a new product:
\* the pool holds the local candidate and the new one
C28_Witness ==
    /\ recCall # <<>>
    /\ recCall.requests = 1
    /\ recCall.response.products = <<CatalogSelf, CatalogNew>>
    /\ Len(recCall.local) = 1
    /\ Len(recCall.pool) = 2
    /\ recCall.pool[2].upc = CatalogNew.code
    /\ Len(recs) > 0


(***************************************************************************)
(* The ingredient links of one stored product                              *)
(* (app/services/product_storage.py:547-598).  A record's ingredient is    *)
(* [id]: its tag, "" when it has none; a product_ingredients row is        *)
(* [tag, rank], at most one per tag (the key is product_id, ingredient_id).*)
(***************************************************************************)
\* the longest ingredient list of a record
MaxRecordIngredients == 3

LinkTags == {"en:sugar", "en:salt", "en:water"}

\* product_storage.py:548: the ingredient lists a record can carry
LinkRecords ==
    SeqsUpTo({[id |-> tag] : tag \in LinkTags \cup {""}}, MaxRecordIngredients)

\* product_storage.py:593-598: the DELETE runs for a non-empty id list only
RemoveStale(rows, ingredient_ids_list) ==
    IF ingredient_ids_list # {}
    THEN {r \in rows : r.tag \in ingredient_ids_list}
    ELSE rows

RECURSIVE UpsertLinks(_, _, _)
\* product_storage.py:552-591, the loop from position idx + 1 = i on: an
\* ingredient without a tag is passed over, a tag's row is inserted or
\* rewritten with rank idx + 1
UpsertLinks(rows, ingredients, i) ==
    IF i > Len(ingredients) THEN rows
    ELSE LET tag == ingredients[i].id
         IN  IF tag = "" THEN UpsertLinks(rows, ingredients, i + 1)
             ELSE UpsertLinks({r \in rows : r.tag # tag}
                                  \cup {[tag |-> tag, rank |-> i]},
                              ingredients, i + 1)

\* product_storage.py:547-598
save_ingredients(rows, ingredients) ==
    RemoveStale(UpsertLinks(rows, ingredients, 1),
                {ingredients[i].id : i \in 1..Len(ingredients)} \ {""})

\* the product was inserted from some record
InitLinks ==
    /\ products = <<>>
    /\ geocache = <<>>
    /\ links \in {[rows |-> save_ingredients({}, l), saved |-> <<>>] : l \in LinkRecords}
    /\ scorerCall = <<>> /\ scoreLog = <<>> /\ savers = <<>> /\ geo = <<>>
    /\ IdleBarcode /\ IdleScore /\ IdleRec /\ IdleScan

\* save_product for the product already stored
SaveExistingProduct ==
    \E ingredients \in LinkRecords :
      /\ links' = [rows |-> save_ingredients(links.rows, ingredients),
                   saved |-> <<ingredients>>]
      /\ UNCHANGED <<products, geocache, scorerCall, scoreLog, savers, geo,
                     barcodeVars, scoreVars, recVars, scanVars>>

NextLinks == SaveExistingProduct

SpecLinks == InitLinks /\ [][NextLinks]_vars

\* the tags of the record saved last
SavedTags ==
    {links.saved[1][i].id : i \in 1..Len(links.saved[1])} \ {""}

C30_Original ==
    (Returned /\ wfResult[1].status = "success") =>
        /\ wfResult[1].product # <<>>
        /\ IsNum(wfResult[1].product[1].id)
        /\ {"total_score", "grade"} \subseteq DOMAIN wfResult[1].sustainability_scores

=============================================================================
